---- MODULE Spec2Model ----
(***************************************************************************)
(* A model of the instruqt-go client library: the webhook handler          *)
(* (instruqt/webhook.go) and the resource methods of the GraphQL client    *)
(* (track, challenge, invite).                                             *)
(***************************************************************************)
EXTENDS Integers, Sequences, FiniteSets, TLC

VARIABLES
    secret,     \* the secret HandleWebhook was constructed with
    req,        \* the request last served by the webhook handler
    cb,         \* how the caller-supplied callback behaves for that request
    resp,       \* what serving that request did (recorder, trace, handler writes)
    nreq,       \* number of requests served so far
    repeated,   \* the request last served is the same as the one before it
    client,     \* the Client value NewClient returned
    ret,        \* the method call that returned last, with its result
    calls,      \* the executor calls that method call made, in order
    derived,    \* the Client value WithContext returned, and for which context
    receiver,   \* the Client value the resource methods are called on
    rt,         \* the BearerTokenRoundTripper the caller built
    rtreq,      \* the request last given to its RoundTrip: as given, as left
    delegated,  \* what the underlying transport received during that RoundTrip
    rtret,      \* what that RoundTrip returned
    ninvoke,    \* how many times the caller has repeated one and the same call
    nprimary,   \* how many of these calls reached the executor
    proc        \* the calls in flight on the client, one per goroutine

whVars == <<secret, req, cb, resp, nreq, repeated>>

ctxVars == <<derived, receiver>>

rtVars == <<rt, rtreq, delegated, rtret>>

repVars == <<ninvoke, nprimary>>

coVars == <<proc>>

clVars == <<client, ret, calls, ctxVars, rtVars, repVars, coVars>>

vars ==
    <<secret, req, cb, resp, nreq, repeated, client, ret, calls, derived,
      receiver, rt, rtreq, delegated, rtret, ninvoke, nprimary, proc>>

(***************************************************************************)
(* Bounds                                                                  *)
(***************************************************************************)
MaxRequests == 2

MaxChallenges == 2

\* The longest list of tracks or of sandboxes the remote service returns.
MaxTracks == 2

\* How many times a caller repeats one and the same call.
MaxRepeats == 3

\* The longest display name of a user profile, in characters.
MaxNameLen == 4

\* The most options applied to one accumulator.
MaxOptions == 2

(***************************************************************************)
(* net/http: methods, status codes, the response writer                    *)
(***************************************************************************)
MethodPost == "POST"

Methods == {"POST", "GET", "PUT"}

StatusOK == 200

StatusAccepted == 202

StatusBadRequest == 400

StatusUnauthorized == 401

StatusMethodNotAllowed == 405

StatusInternalServerError == 500

\* httptest.NewRecorder(): nothing written yet, Code defaults to 200.
NewRecorder == [wroteHeader |-> FALSE, Code |-> StatusOK, Body |-> <<>>]

\* w.WriteHeader(code): only the first status written counts.
WriteHeader(w, code) ==
    IF w.wroteHeader THEN w
    ELSE [w EXCEPT !.wroteHeader = TRUE, !.Code = code]

\* w.Write(b): writes an implicit 200 when no status was written, then appends.
Write(w, b) ==
    LET w1 == WriteHeader(w, StatusOK)
    IN  [w1 EXCEPT !.Body = Append(@, b)]

\* The line http.Error prints for a message (fmt.Fprintln).
ErrorLine(msg) == msg \o "\n"

\* http.Error(w, msg, code): WriteHeader(code), then the message as a line.
HttpError(w, msg, code) == Write(WriteHeader(w, code), ErrorLine(msg))

(***************************************************************************)
(* The signature primitive (svix) as the handler uses it                   *)
(***************************************************************************)
TestSecret == "dGVzdC1zZWNyZXQ="

BadSecret == "not-base64!"

Secrets == {TestSecret, BadSecret}

AttackerKey == "YXR0YWNrZXI="

SigningKeys == {TestSecret, AttackerKey}

\* svix.NewWebhook(secret) fails when the secret is not base64.
NewWebhookErr(s) == s = BadSecret

\* wh.Sign(id, ts, payload): a signature names the key and the exact payload.
Sign(key, payload) == [key |-> key, payload |-> payload]

\* wh.Verify(payload, headers): nil iff the header signs this payload with
\* the handler's secret.
VerifyErr(s, payload, sig) == sig # Sign(s, payload)

(***************************************************************************)
(* Payloads and json.Unmarshal into WebhookEvent                           *)
(***************************************************************************)
Payload(kind, typeKind, typeVal) ==
    [kind |-> kind, typeKind |-> typeKind, typeVal |-> typeVal]

Bodies ==
    { Payload("malformed", "absent", ""),      \* {"type":
      Payload("null", "absent", ""),           \* null
      Payload("object", "absent", ""),         \* {"track_id":"track_123"}
      Payload("object", "number", ""),         \* {"type":7}
      Payload("object", "string", ""),         \* {"type":""}
      Payload("object", "string", "test_event") }

\* var webhook WebhookEvent
ZeroEvent == [Type |-> ""]

\* json.Unmarshal(payload, &webhook): a syntax error or a "type" that is not
\* a string is an error; null and an object without "type" leave Type empty.
Unmarshal(payload) ==
    IF payload.kind = "malformed"
    THEN [err |-> TRUE, webhook |-> ZeroEvent]
    ELSE IF payload.kind = "null"
    THEN [err |-> FALSE, webhook |-> ZeroEvent]
    ELSE IF payload.typeKind = "number"
    THEN [err |-> TRUE, webhook |-> ZeroEvent]
    ELSE IF payload.typeKind = "absent"
    THEN [err |-> FALSE, webhook |-> ZeroEvent]
    ELSE [err |-> FALSE, webhook |-> [Type |-> payload.typeVal]]

\* The payload of the genuine event a replayed signature was taken from.
SignedEvent == Payload("object", "string", "test_event")

\* The signatures a request carrying body b may present: made over b with
\* either key, or lifted from the genuine event.
SignaturesFor(b) ==
    {Sign(k, b) : k \in SigningKeys} \cup {Sign(TestSecret, SignedEvent)}

\* An incoming request: method, whether reading the body fails, the body,
\* and the signature its headers carry.
Requests ==
    UNION { { [Method |-> m, BodyErr |-> e, Body |-> b, Sig |-> g] :
                  m \in Methods, e \in BOOLEAN, g \in SignaturesFor(b) } :
            b \in Bodies }

(***************************************************************************)
(* The caller-supplied callback (WebhookHandler)                           *)
(***************************************************************************)
NoError == [isErr |-> FALSE, text |-> ""]

ErrNotSupported == [isErr |-> TRUE, text |-> "feature not supported"]

\* What a callback does with the response writer (status 0: WriteHeader is
\* not called; body "": Write is not called) and what it returns.
Callbacks ==
    { [status |-> 0, body |-> "", err |-> NoError],
      [status |-> StatusOK, body |-> "", err |-> NoError],
      [status |-> StatusAccepted, body |-> "queued", err |-> NoError],
      [status |-> 0, body |-> "", err |-> ErrNotSupported],
      [status |-> 0, body |-> "partial", err |-> ErrNotSupported],
      [status |-> StatusAccepted, body |-> "", err |-> ErrNotSupported] }

\* The response writer after the callback ran on it.
CallbackWrites(w, b) ==
    LET w1 == IF b.status # 0 THEN WriteHeader(w, b.status) ELSE w
    IN  IF b.body # "" THEN Write(w1, b.body) ELSE w1

(***************************************************************************)
(* HandleWebhook                                                           *)
(***************************************************************************)
\* The run of one request: the recorder, the steps taken in order, the
\* (message, code) pairs the handler itself passed to http.Error, and the
\* state of the request.
StartRun ==
    [w |-> NewRecorder, trace |-> <<>>, wrote |-> <<>>, state |-> "UNVERIFIED"]

Step(run, op, ok) == [run EXCEPT !.trace = Append(@, [op |-> op, ok |-> ok])]

\* http.Error(w, msg, code) called by the handler.
HandlerError(run, msg, code) ==
    [run EXCEPT !.w = HttpError(@, msg, code),
                !.wrote = Append(@, [msg |-> msg, code |-> code])]

\* http.Error(...); return  -- before the callback is reached.
Reject(run, msg, code) ==
    [HandlerError(run, msg, code) EXCEPT !.state = "REJECTED"]

\* Dispatch with the callback's error dropped instead of answered.
Dispatch_SwallowError(run, b) ==
    [Step(run, "handler", ~b.err.isErr) EXCEPT
         !.w = CallbackWrites(@, b), !.state = "VERIFIED"]

\* Dispatch with the handler writing its own 200 before the callback runs.
Dispatch_WritesOK(run, b) ==
    LET called == [Step(run, "handler", ~b.err.isErr) EXCEPT
                       !.w = CallbackWrites(WriteHeader(@, StatusOK), b),
                       !.state = "VERIFIED"]
    IN  IF b.err.isErr
        THEN HandlerError(called, b.err.text, StatusInternalServerError)
        ELSE called

\* handler(w, r, webhook) and the 500 on its error.
Dispatch(run, b) ==
    LET called == [Step(run, "handler", ~b.err.isErr) EXCEPT
                       !.w = CallbackWrites(@, b), !.state = "VERIFIED"]
    IN  IF b.err.isErr
        THEN HandlerError(called, b.err.text, StatusInternalServerError)
        ELSE called

\* Decode without the check for an empty type.
Decode_NoTypeCheck(run, payload, b) ==
    LET dec == Unmarshal(payload)
        run1 == Step(run, "Unmarshal", ~dec.err)
    IN  IF dec.err
        THEN Reject(run1, "Failed to decode webhook payload", StatusBadRequest)
        ELSE Dispatch(run1, b)

\* json.Unmarshal and the type check, on a verified payload.
Decode(run, payload, b) ==
    LET dec == Unmarshal(payload)
        run1 == Step(run, "Unmarshal", ~dec.err)
    IN  IF dec.err
        THEN Reject(run1, "Failed to decode webhook payload", StatusBadRequest)
        ELSE IF dec.webhook.Type = ""
        THEN Reject(run1, "Invalid webhook payload", StatusBadRequest)
        ELSE Dispatch(run1, b)

\* ReadAndVerify with the payload decoded before its signature is verified.
ReadAndVerify_ParseFirst(run, s, r, b) ==
    LET run1 == Step(run, "ReadAll", ~r.BodyErr)
    IN  IF r.BodyErr
        THEN Reject(run1, "No payload", StatusBadRequest)
        ELSE LET dec == Unmarshal(r.Body)
                 run2 == Step(run1, "Unmarshal", ~dec.err)
                 bad == VerifyErr(s, r.Body, r.Sig)
                 run3 == Step(run2, "Verify", ~bad)
             IN  IF dec.err
                 THEN Reject(run2, "Failed to decode webhook payload",
                             StatusBadRequest)
                 ELSE IF bad
                 THEN Reject(run3, "Invalid webhook signature", StatusUnauthorized)
                 ELSE IF dec.webhook.Type = ""
                 THEN Reject(run3, "Invalid webhook payload", StatusBadRequest)
                 ELSE Dispatch(run3, b)

\* ReadAndVerify with the verification error ignored.
ReadAndVerify_IgnoreVerify(run, s, r, b) ==
    LET run1 == Step(run, "ReadAll", ~r.BodyErr)
    IN  IF r.BodyErr
        THEN Reject(run1, "No payload", StatusBadRequest)
        ELSE Decode(Step(run1, "Verify", ~VerifyErr(s, r.Body, r.Sig)), r.Body, b)

\* ReadAndVerify answering an unreadable body with 500.
ReadAndVerify_ReadError500(run, s, r, b) ==
    LET run1 == Step(run, "ReadAll", ~r.BodyErr)
    IN  IF r.BodyErr
        THEN Reject(run1, "No payload", StatusInternalServerError)
        ELSE LET bad == VerifyErr(s, r.Body, r.Sig)
                 run2 == Step(run1, "Verify", ~bad)
             IN  IF bad
                 THEN Reject(run2, "Invalid webhook signature", StatusUnauthorized)
                 ELSE Decode(run2, r.Body, b)

\* io.ReadAll, wh.Verify and what follows.
ReadAndVerify(run, s, r, b) ==
    LET run1 == Step(run, "ReadAll", ~r.BodyErr)
    IN  IF r.BodyErr
        THEN Reject(run1, "No payload", StatusBadRequest)
        ELSE LET bad == VerifyErr(s, r.Body, r.Sig)
                 run2 == Step(run1, "Verify", ~bad)
             IN  IF bad
                 THEN Reject(run2, "Invalid webhook signature", StatusUnauthorized)
                 ELSE Decode(run2, r.Body, b)

\* HandleWebhook rejecting GET only, instead of everything but POST.
HandleWebhook_GetOnly(b, s, r) ==
    IF r.Method = "GET"
    THEN Reject(StartRun, "Invalid request method", StatusMethodNotAllowed)
    ELSE LET run1 == Step(StartRun, "NewWebhook", ~NewWebhookErr(s))
         IN  IF NewWebhookErr(s)
             THEN Reject(run1, "Failed to create webhook validator",
                         StatusInternalServerError)
             ELSE ReadAndVerify(run1, s, r, b)

\* The http.HandlerFunc returned by HandleWebhook(handler, secret), applied
\* to one request with a fresh recorder.
HandleWebhook(b, s, r) ==
    IF r.Method # MethodPost
    THEN Reject(StartRun, "Invalid request method", StatusMethodNotAllowed)
    ELSE LET run1 == Step(StartRun, "NewWebhook", ~NewWebhookErr(s))
         IN  IF NewWebhookErr(s)
             THEN Reject(run1, "Failed to create webhook validator",
                         StatusInternalServerError)
             ELSE ReadAndVerify(run1, s, r, b)

(***************************************************************************)
(* The client and the query executor                                       *)
(***************************************************************************)
\* NewClient(token, teamSlug): the executor is the GraphQLClient field, built
\* over a transport that carries the token.
NewClient(token, teamSlug) ==
    [GraphQLClient |-> "graphql(" \o token \o ")",
     InfoLogger |-> "INFO: ", DebugLogger |-> "DEBUG:",
     TeamSlug |-> teamSlug, Context |-> "background"]

\* &Client{}: every pointer nil, every string empty.
ZeroClient ==
    [GraphQLClient |-> "nil", InfoLogger |-> "nil", DebugLogger |-> "nil",
     TeamSlug |-> "", Context |-> "nil"]

\* func (c *Client) WithContext(ctx context.Context) *Client
WithContext(c, ctx) ==
    [ZeroClient EXCEPT !.GraphQLClient = c.GraphQLClient,
                       !.InfoLogger = c.InfoLogger,
                       !.TeamSlug = c.TeamSlug,
                       !.Context = ctx]

\* The contexts a caller may derive a client for.
Contexts == {"background", "timeout-2s", "timeout-5s"}

\* The executor's error, as the tests' mocks return it.
GraphQLError == [isErr |-> TRUE, text |-> "graphql error"]

\* fmt.Errorf(prefix + "%v", err)
Errorf(prefix, err) == [isErr |-> TRUE, text |-> prefix \o err.text]

\* Zero values of the result types.
ZeroChallenge == [Id |-> "", Status |-> ""]

ZeroReviews == [TotalCount |-> 0, Nodes |-> <<>>]

ZeroTrack ==
    [Id |-> "", Slug |-> "", Challenges |-> <<>>, TrackReviews |-> ZeroReviews]

ZeroSandboxTrack ==
    [Id |-> "", Slug |-> "", Status |-> "",
     Challenges |-> <<>>, TrackReviews |-> ZeroReviews]

ZeroInvite == [Id |-> "", PublicTitle |-> ""]

\* Identifiers the callers pass; "" is the empty identifier.
TrackIds == {"", "t1"}

TrackSlugs == {"", "cilium-intro"}

ChallengeIds == {"", "c1", "c2"}

InviteIds == {"", "inv1"}

ReviewIds == {"", "r1"}

SandboxIds == {"", "sb1"}

UserIds == {"", "u1"}

\* Challenge statuses the remote service reports.
Statuses ==
    {"locked", "completed", "unlocked", "creating", "created", "started"}

\* The statuses the remote service may hold for a user's challenges.
UserStatuses == [{"c1", "c2"} -> Statuses]

\* Sequences over S of length at most n.
SeqsUpTo(S, n) == UNION {[1..k -> S] : k \in 0..n}

\* What the remote service answers within one method call: which executor
\* call fails (0: none) and the data the queries decode.
NewRemote(failAt, track, challenges, userStatus, reviews) ==
    [failAt |-> failAt, track |-> track, challenges |-> challenges,
     userStatus |-> userStatus, reviews |-> reviews]

\* Tracks the remote service may return for a track query.
RemoteTracks ==
    { [Id |-> "t1", Slug |-> "cilium-intro"], [Id |-> "", Slug |-> ""] }

\* Challenge lists the remote service may return for a track.
RemoteChallengeLists ==
    { [i \in DOMAIN ids |-> [Id |-> ids[i], Status |-> ""]] :
          ids \in SeqsUpTo({"c1", "c2"}, MaxChallenges) }

\* Review collections the remote service may return for a track.
RemoteReviews ==
    { ZeroReviews,
      [TotalCount |-> 1, Nodes |-> <<[Id |-> "r1", Play |-> "p1"]>>] }

\* The state of the executor during one method call: the calls made so far
\* and the remote service behind it.
NewExec(remote) == [calls |-> <<>>, remote |-> remote]

\* What a query decodes into its destination when the call succeeds.
Respond(remote, q, variables) ==
    CASE q = "trackQuery" ->
            [Id |-> remote.track.Id, Slug |-> remote.track.Slug,
             Challenges |-> <<>>, TrackReviews |-> ZeroReviews]
      [] q = "trackQueryBySlug" ->
            [Id |-> remote.track.Id, Slug |-> remote.track.Slug,
             Challenges |-> <<>>, TrackReviews |-> ZeroReviews]
      [] q = "sandboxTrackQuery" ->
            [Id |-> remote.track.Id, Slug |-> remote.track.Slug,
             Status |-> "started",
             Challenges |-> <<>>, TrackReviews |-> ZeroReviews]
      [] q = "challengesQuery" -> remote.challenges
      [] q = "challengeQuery" ->
            [Id |-> variables.challengeId, Status |-> ""]
      [] q = "userChallengeQuery" ->
            [Id |-> variables.challengeId,
             Status |-> remote.userStatus[variables.challengeId]]
      [] q = "trackReviewsWithPlay" -> remote.reviews
      [] q = "trackReviewsBase" ->
            [TotalCount |-> remote.reviews.TotalCount,
             Nodes |-> [i \in DOMAIN remote.reviews.Nodes |->
                           [Id |-> remote.reviews.Nodes[i].Id]]]
      [] q = "reviewQueryWithPlay" -> remote.review
      [] q = "reviewQueryBase" -> [Id |-> remote.review.Id]
      [] q = "playQuery" ->
            [Items |-> <<[Id |-> "play-1"]>>, TotalItems |-> 1]
      [] q = "userInfoQuery" -> remote.user
      [] q = "tracksQuery" -> remote.tracks
      [] q = "sandboxQuery" ->
            [Id |-> variables.id, State |-> "active",
             Track |-> [Id |-> remote.track.Id, Slug |-> remote.track.Slug,
                        Status |-> "started", Challenges |-> <<>>,
                        TrackReviews |-> ZeroReviews],
             User |-> [Id |-> "u1"]]
      [] q = "sandboxesQuery" -> remote.sandboxes
      [] q = "inviteQuery" ->
            [Id |-> variables.inviteId, PublicTitle |-> "Invite"]
      [] q = "sandboxVarQuery" ->
            [Key |-> variables.key, Value |-> remote.value]
      [] q = "sandboxVarSet" ->
            [Key |-> variables.key, Value |-> variables.value]

\* c.GraphQLClient.Query(c.Context, &q, variables) on the executor state x
\* that the calls before it left: the call is recorded with its answer, and
\* fails when the remote service has it fail.
Query(c, x, q, variables) ==
    LET n == Len(x.calls) + 1
        failed == x.remote.failAt = n
        data == IF failed THEN <<>> ELSE Respond(x.remote, q, variables)
    IN  [x |-> [x EXCEPT !.calls =
                   Append(@, [op |-> "Query", q |-> q,
                              variables |-> variables, ctx |-> c.Context,
                              failed |-> failed, data |-> data])],
         err |-> IF failed THEN GraphQLError ELSE NoError,
         data |-> data]

\* c.GraphQLClient.Mutate(c.Context, &m, variables), recorded and answered
\* like a query.
Mutate(c, x, m, variables) ==
    LET n == Len(x.calls) + 1
        failed == x.remote.failAt = n
        data == IF failed THEN <<>> ELSE Respond(x.remote, m, variables)
    IN  [x |-> [x EXCEPT !.calls =
                   Append(@, [op |-> "Mutate", q |-> m,
                              variables |-> variables, ctx |-> c.Context,
                              failed |-> failed, data |-> data])],
         err |-> IF failed THEN GraphQLError ELSE NoError,
         data |-> data]

\* The statements that follow a call: Rest, run on what the call returned.
Then(r, Rest(_)) == Rest(r)

\* A method's return: the executor state after it, the value and the error.
Return(x, val, err) == [x |-> x, val |-> val, err |-> err]

(***************************************************************************)
(* Options (instruqt/options.go)                                           *)
(***************************************************************************)
\* A Go slice: nil, or a (possibly empty) list of elements.
NilSlice == [isNil |-> TRUE, elems |-> <<>>]

Slice(elems) == [isNil |-> FALSE, elems |-> elems]

\* The slice a variadic parameter receives: nil when no argument is given.
Variadic(args) == IF args = <<>> THEN NilSlice ELSE Slice(args)

\* type PlayType string
PlayTypeAll == "ALL"

PlayTypeDeveloper == "DEVELOPER"

PlayTypeNormal == "NORMAL"

\* OrderBy and Direction constants.
OrderByCompletionPercent == "completion_percent"

OrderByTimeSpent == "time_spent"

DirectionAsc == "Asc"

DirectionDesc == "Desc"

\* *Ordering: nil, or a pointer to an Ordering{OrderBy, Direction}.
NilOrdering == [isNil |-> TRUE, OrderBy |-> "", Direction |-> ""]

NewOrdering(orderBy, direction) ==
    [isNil |-> FALSE, OrderBy |-> orderBy, Direction |-> direction]

\* options := &options{}
ZeroOptions ==
    [includePlay |-> FALSE, includeChallenges |-> FALSE,
     includeReviews |-> FALSE, includeAssignment |-> FALSE,
     trackIDs |-> NilSlice, trackInviteIDs |-> NilSlice,
     landingPageIDs |-> NilSlice, tags |-> NilSlice, userIDs |-> NilSlice,
     playType |-> "", ordering |-> NilOrdering,
     state |-> "", poolIDs |-> NilSlice]

\* An Option is a closure over its arguments: its name, the slice and the
\* strings it captured.
Opt(name, ids, a, b) == [name |-> name, ids |-> ids, a |-> a, b |-> b]

WithPlay == Opt("WithPlay", NilSlice, "", "")

WithChallenges == Opt("WithChallenges", NilSlice, "", "")

WithReviews == Opt("WithReviews", NilSlice, "", "")

WithTrackIDs(ids) == Opt("WithTrackIDs", Variadic(ids), "", "")

WithTrackInviteIDs(ids) == Opt("WithTrackInviteIDs", Variadic(ids), "", "")

WithTags(tags) == Opt("WithTags", Variadic(tags), "", "")

WithUserIDs(ids) == Opt("WithUserIDs", Variadic(ids), "", "")

WithState(state) == Opt("WithState", NilSlice, state, "")

WithPoolIDs(ids) == Opt("WithPoolIDs", Variadic(ids), "", "")

WithPlayType(pt) == Opt("WithPlayType", NilSlice, pt, "")

WithOrdering(orderBy, direction) ==
    Opt("WithOrdering", NilSlice, orderBy, direction)

\* The options of the track methods.
WithAssignment == Opt("WithAssignment", NilSlice, "", "")

Options == {WithPlay, WithChallenges, WithReviews}

\* Options whose list options append to the list the accumulator holds.
ApplyOption_Appends(o, opt) ==
    CASE opt.name = "WithPlay" -> [o EXCEPT !.includePlay = TRUE]
      [] opt.name = "WithChallenges" -> [o EXCEPT !.includeChallenges = TRUE]
      [] opt.name = "WithReviews" -> [o EXCEPT !.includeReviews = TRUE]
      [] opt.name = "WithAssignment" -> [o EXCEPT !.includeAssignment = TRUE]
      [] opt.name = "WithTrackIDs" ->
            [o EXCEPT !.trackIDs = Slice(@.elems \o opt.ids.elems)]
      [] opt.name = "WithTrackInviteIDs" ->
            [o EXCEPT !.trackInviteIDs = Slice(@.elems \o opt.ids.elems)]
      [] opt.name = "WithTags" ->
            [o EXCEPT !.tags = Slice(@.elems \o opt.ids.elems)]
      [] opt.name = "WithUserIDs" ->
            [o EXCEPT !.userIDs = Slice(@.elems \o opt.ids.elems)]
      [] opt.name = "WithState" -> [o EXCEPT !.state = opt.a]
      [] opt.name = "WithPoolIDs" ->
            [o EXCEPT !.poolIDs = Slice(@.elems \o opt.ids.elems)]
      [] opt.name = "WithPlayType" -> [o EXCEPT !.playType = opt.a]
      [] opt.name = "WithOrdering" ->
            [o EXCEPT !.ordering = NewOrdering(opt.a, opt.b)]

\* opt(options)
ApplyOption(o, opt) ==
    CASE opt.name = "WithPlay" -> [o EXCEPT !.includePlay = TRUE]
      [] opt.name = "WithChallenges" -> [o EXCEPT !.includeChallenges = TRUE]
      [] opt.name = "WithReviews" -> [o EXCEPT !.includeReviews = TRUE]
      [] opt.name = "WithAssignment" -> [o EXCEPT !.includeAssignment = TRUE]
      [] opt.name = "WithTrackIDs" -> [o EXCEPT !.trackIDs = opt.ids]
      [] opt.name = "WithTrackInviteIDs" ->
            [o EXCEPT !.trackInviteIDs = opt.ids]
      [] opt.name = "WithTags" -> [o EXCEPT !.tags = opt.ids]
      [] opt.name = "WithUserIDs" -> [o EXCEPT !.userIDs = opt.ids]
      [] opt.name = "WithState" -> [o EXCEPT !.state = opt.a]
      [] opt.name = "WithPoolIDs" -> [o EXCEPT !.poolIDs = opt.ids]
      [] opt.name = "WithPlayType" -> [o EXCEPT !.playType = opt.a]
      [] opt.name = "WithOrdering" ->
            [o EXCEPT !.ordering = NewOrdering(opt.a, opt.b)]

RECURSIVE ApplyFrom(_, _, _)
ApplyFrom(o, opts, i) ==
    IF i > Len(opts) THEN o
    ELSE ApplyFrom(ApplyOption(o, opts[i]), opts, i + 1)

\* for _, opt := range opts { opt(options) }
ApplyOptions(opts) == ApplyFrom(ZeroOptions, opts, 1)

\* The option lists the callers pass.
OptionLists == SeqsUpTo(Options, 2)

\* The option lists the callers of GetReview pass.
ReviewOptionLists == {<<>>, <<WithPlay>>}

(***************************************************************************)
(* Challenges                                                              *)
(***************************************************************************)
\* func (c *Client) GetChallenge(id string) (ch Challenge, err error)
GetChallenge(c, x, id) ==
    IF id = "" THEN Return(x, ZeroChallenge, NoError)
    ELSE Then(Query(c, x, "challengeQuery", [challengeId |-> id]),
              LAMBDA r :
                 IF r.err.isErr THEN Return(r.x, ZeroChallenge, r.err)
                 ELSE Return(r.x, r.data, NoError))

\* func (c *Client) GetUserChallenge(userId string, id string)
GetUserChallenge(c, x, userId, id) ==
    IF id = "" THEN Return(x, ZeroChallenge, NoError)
    ELSE Then(Query(c, x, "userChallengeQuery",
                    [challengeId |-> id, userId |-> userId]),
              LAMBDA r :
                 IF r.err.isErr THEN Return(r.x, ZeroChallenge, r.err)
                 ELSE Return(r.x, r.data, NoError))

\* GetChallenges that drops the executor's error.
GetChallenges_SwallowsError(c, x, trackId) ==
    IF trackId = "" THEN Return(x, <<>>, NoError)
    ELSE Then(Query(c, x, "challengesQuery",
                    [trackId |-> trackId, teamSlug |-> c.TeamSlug]),
              LAMBDA r :
                 IF r.err.isErr THEN Return(r.x, <<>>, NoError)
                 ELSE Return(r.x, r.data, NoError))

\* func (c *Client) GetChallenges(trackId string) (ch []Challenge, err error)
GetChallenges(c, x, trackId) ==
    IF trackId = "" THEN Return(x, <<>>, NoError)
    ELSE Then(Query(c, x, "challengesQuery",
                    [trackId |-> trackId, teamSlug |-> c.TeamSlug]),
              LAMBDA r :
                 IF r.err.isErr THEN Return(r.x, <<>>, r.err)
                 ELSE Return(r.x, r.data, NoError))

(***************************************************************************)
(* Invites                                                                 *)
(***************************************************************************)
\* func (c *Client) GetInvite(inviteId string) (i TrackInvite, err error)
GetInvite(c, x, inviteId) ==
    IF inviteId = "" THEN Return(x, ZeroInvite, NoError)
    ELSE Then(Query(c, x, "inviteQuery", [inviteId |-> inviteId]),
              LAMBDA r :
                 IF r.err.isErr THEN Return(r.x, ZeroInvite, r.err)
                 ELSE Return(r.x, r.data, NoError))

(***************************************************************************)
(* Reviews                                                                 *)
(***************************************************************************)
\* A nil *Review.
NilReview == [isNil |-> TRUE, Id |-> "", Play |-> "nil"]

\* A pointer to a Review.
NewReview(id, play) == [isNil |-> FALSE, Id |-> id, Play |-> play]

\* GetReview asking for the play whatever the options.
GetReview_AlwaysWithPlay(c, x, id, opts) ==
    Then(Query(c, x, "reviewQueryWithPlay", [id |-> id]),
         LAMBDA r :
            IF r.err.isErr
            THEN Return(r.x, NilReview,
                        Errorf("GraphQL query with play failed: ", r.err))
            ELSE Return(r.x, NewReview(r.data.Id, r.data.Play), NoError))

\* func (c *Client) GetReview(id string, opts ...GetReviewOption)
GetReview(c, x, id, opts) ==
    IF ApplyOptions(opts).includePlay
    THEN Then(Query(c, x, "reviewQueryWithPlay", [id |-> id]),
              LAMBDA r :
                 IF r.err.isErr
                 THEN Return(r.x, NilReview,
                             Errorf("GraphQL query with play failed: ", r.err))
                 ELSE Return(r.x, NewReview(r.data.Id, r.data.Play), NoError))
    ELSE Then(Query(c, x, "reviewQueryBase", [id |-> id]),
              LAMBDA r :
                 IF r.err.isErr
                 THEN Return(r.x, NilReview,
                             Errorf("GraphQL query failed: ", r.err))
                 ELSE Return(r.x, NewReview(r.data.Id, "nil"), NoError))

(***************************************************************************)
(* Tracks                                                                  *)
(***************************************************************************)
\* Review{baseReview: r, Play: nil} for every node of the base query.
WithoutPlay(nodes) ==
    [i \in DOMAIN nodes |-> [Id |-> nodes[i].Id, Play |-> "nil"]]

\* func (c *Client) GetReviews(trackId string, opts ...Option)
GetReviews(c, x, trackId, opts) ==
    IF ApplyOptions(opts).includePlay
    THEN Then(Query(c, x, "trackReviewsWithPlay", [trackId |-> trackId]),
              LAMBDA r :
                 IF r.err.isErr
                 THEN Return(r.x, ZeroReviews,
                             Errorf("GraphQL query with play failed: ", r.err))
                 ELSE Return(r.x, r.data, NoError))
    ELSE Then(Query(c, x, "trackReviewsBase", [trackId |-> trackId]),
              LAMBDA r :
                 IF r.err.isErr
                 THEN Return(r.x, ZeroReviews,
                             Errorf("GraphQL query failed: ", r.err))
                 ELSE Return(r.x,
                             [TotalCount |-> r.data.TotalCount,
                              Nodes |-> WithoutPlay(r.data.Nodes)],
                             NoError))

\* The enrichment shared by the track methods: the challenges of trackId,
\* then its reviews, each when its option is set, written into track t.
\* failed: what to return when a follow-up call fails.
EnrichReviews(c, x, t, trackId, opts, failed) ==
    IF ApplyOptions(opts).includeReviews
    THEN Then(GetReviews(c, x, trackId, opts),
              LAMBDA r :
                 IF r.err.isErr
                 THEN Return(r.x, failed,
                             Errorf("failed to fetch reviews for track: ",
                                    r.err))
                 ELSE Return(r.x, [t EXCEPT !.TrackReviews = r.val], NoError))
    ELSE Return(x, t, NoError)

\* The enrichment fetching the reviews before the challenges.
EnrichChallenges_ReviewsFirst(c, x, t, trackId, opts, failed) ==
    Then(EnrichReviews(c, x, t, trackId, opts, failed),
         LAMBDA v :
            IF v.err.isErr \/ ~ApplyOptions(opts).includeChallenges THEN v
            ELSE Then(GetChallenges(c, v.x, trackId),
                      LAMBDA r :
                         IF r.err.isErr
                         THEN Return(r.x, failed,
                                     Errorf("failed to fetch challenges for track: ",
                                            r.err))
                         ELSE Return(r.x, [v.val EXCEPT !.Challenges = r.val],
                                     NoError)))

EnrichChallenges(c, x, t, trackId, opts, failed) ==
    IF ApplyOptions(opts).includeChallenges
    THEN Then(GetChallenges(c, x, trackId),
              LAMBDA r :
                 IF r.err.isErr
                 THEN Return(r.x, failed,
                             Errorf("failed to fetch challenges for track: ",
                                    r.err))
                 ELSE EnrichReviews(c, r.x, [t EXCEPT !.Challenges = r.val],
                                    trackId, opts, failed))
    ELSE EnrichReviews(c, x, t, trackId, opts, failed)

\* func (c *Client) GetTrackById(trackId string, opts ...Option)
GetTrackById(c, x, trackId, opts) ==
    IF trackId = "" THEN Return(x, ZeroTrack, NoError)
    ELSE Then(Query(c, x, "trackQuery", [trackId |-> trackId]),
              LAMBDA r :
                 IF r.err.isErr THEN Return(r.x, ZeroTrack, r.err)
                 ELSE EnrichChallenges(c, r.x, r.data, trackId, opts,
                                       ZeroTrack))

\* GetTrackBySlug without the guard on an empty slug.
GetTrackBySlug_NoGuard(c, x, trackSlug, opts) ==
    Then(Query(c, x, "trackQueryBySlug",
               [trackSlug |-> trackSlug, teamSlug |-> c.TeamSlug]),
         LAMBDA r :
            IF r.err.isErr THEN Return(r.x, ZeroTrack, r.err)
            ELSE EnrichChallenges(c, r.x, r.data, r.data.Id, opts, ZeroTrack))

\* func (c *Client) GetTrackBySlug(trackSlug string, opts ...Option)
GetTrackBySlug(c, x, trackSlug, opts) ==
    IF trackSlug = "" THEN Return(x, ZeroTrack, NoError)
    ELSE Then(Query(c, x, "trackQueryBySlug",
                    [trackSlug |-> trackSlug, teamSlug |-> c.TeamSlug]),
              LAMBDA r :
                 IF r.err.isErr THEN Return(r.x, ZeroTrack, r.err)
                 ELSE EnrichChallenges(c, r.x, r.data, r.data.Id, opts,
                                       ZeroTrack))

\* for i, ch := range challenges { GetUserChallenge(userId, ch.Id) ... }:
\* every challenge replaced by the user's, stopping at the first error.
RECURSIVE UserChallengesFrom(_, _, _, _, _)
UserChallengesFrom(c, x, userId, challenges, i) ==
    IF i > Len(challenges) THEN Return(x, challenges, NoError)
    ELSE Then(GetUserChallenge(c, x, userId, challenges[i].Id),
              LAMBDA r :
                 IF r.err.isErr THEN Return(r.x, challenges, r.err)
                 ELSE UserChallengesFrom(c, r.x, userId,
                                         [challenges EXCEPT ![i] = r.val],
                                         i + 1))

\* GetUserTrackById storing the challenges as listed, not the user's.
GetUserTrackById_ListedChallenges(c, x, userId, trackId, opts) ==
    IF trackId = "" THEN Return(x, ZeroSandboxTrack, NoError)
    ELSE
      Then(Query(c, x, "sandboxTrackQuery",
                 [trackId |-> trackId, userId |-> userId,
                  organizationSlug |-> c.TeamSlug]),
           LAMBDA r :
              IF r.err.isErr THEN Return(r.x, ZeroSandboxTrack, r.err)
              ELSE IF ApplyOptions(opts).includeChallenges
              THEN Then(GetChallenges(c, r.x, trackId),
                        LAMBDA l :
                           IF l.err.isErr
                           THEN Return(l.x, ZeroSandboxTrack,
                                       Errorf("failed to fetch challenges for track: ",
                                              l.err))
                           ELSE Then(UserChallengesFrom(c, l.x, userId,
                                                        l.val, 1),
                                     LAMBDA u :
                                        IF u.err.isErr
                                        THEN Return(u.x, ZeroSandboxTrack,
                                                    u.err)
                                        ELSE EnrichReviews(c, u.x,
                                                 [r.data EXCEPT
                                                     !.Challenges = l.val],
                                                 trackId, opts,
                                                 ZeroSandboxTrack)))
              ELSE EnrichReviews(c, r.x, r.data, trackId, opts,
                                 ZeroSandboxTrack))

\* func (c *Client) GetUserTrackById(userId, trackId string, opts ...Option)
GetUserTrackById(c, x, userId, trackId, opts) ==
    IF trackId = "" THEN Return(x, ZeroSandboxTrack, NoError)
    ELSE
      Then(Query(c, x, "sandboxTrackQuery",
                 [trackId |-> trackId, userId |-> userId,
                  organizationSlug |-> c.TeamSlug]),
           LAMBDA r :
              IF r.err.isErr THEN Return(r.x, ZeroSandboxTrack, r.err)
              ELSE IF ApplyOptions(opts).includeChallenges
              THEN Then(GetChallenges(c, r.x, trackId),
                        LAMBDA l :
                           IF l.err.isErr
                           THEN Return(l.x, ZeroSandboxTrack,
                                       Errorf("failed to fetch challenges for track: ",
                                              l.err))
                           ELSE Then(UserChallengesFrom(c, l.x, userId,
                                                        l.val, 1),
                                     LAMBDA u :
                                        IF u.err.isErr
                                        THEN Return(u.x, ZeroSandboxTrack,
                                                    u.err)
                                        ELSE EnrichReviews(c, u.x,
                                                 [r.data EXCEPT
                                                     !.Challenges = u.val],
                                                 trackId, opts,
                                                 ZeroSandboxTrack)))
              ELSE EnrichReviews(c, r.x, r.data, trackId, opts,
                                 ZeroSandboxTrack))

\* for _, t := range q.Tracks { challenges, err := c.GetChallenges(t.Id) ...
\* t.Challenges = challenges }: t is a copy of the element, so the list is
\* left as it was; the loop stops at the first error.
RECURSIVE TracksChallengesFrom(_, _, _, _)
TracksChallengesFrom(c, x, tracks, i) ==
    IF i > Len(tracks) THEN Return(x, tracks, NoError)
    ELSE Then(GetChallenges(c, x, tracks[i].Id),
              LAMBDA r :
                 IF r.err.isErr
                 THEN Return(r.x, <<>>,
                             Errorf("failed to fetch challenges for track: ",
                                    r.err))
                 ELSE TracksChallengesFrom(c, r.x, tracks, i + 1))

\* for _, t := range q.Tracks { count, reviews, err := c.GetReviews(t.Id,
\* opts...) ... }, on copies of the elements as well.
RECURSIVE TracksReviewsFrom(_, _, _, _, _)
TracksReviewsFrom(c, x, tracks, opts, i) ==
    IF i > Len(tracks) THEN Return(x, tracks, NoError)
    ELSE Then(GetReviews(c, x, tracks[i].Id, opts),
              LAMBDA r :
                 IF r.err.isErr
                 THEN Return(r.x, <<>>,
                             Errorf("failed to fetch reviews for track: ",
                                    r.err))
                 ELSE TracksReviewsFrom(c, r.x, tracks, opts, i + 1))

\* if options.includeChallenges { for ... }: the first loop of GetTracks.
TracksChallenges(c, x, tracks, opts) ==
    IF ApplyOptions(opts).includeChallenges
    THEN TracksChallengesFrom(c, x, tracks, 1)
    ELSE Return(x, tracks, NoError)

\* if options.includeReviews { for ... }: the second loop of GetTracks.
TracksReviews(c, x, tracks, opts) ==
    IF ApplyOptions(opts).includeReviews
    THEN TracksReviewsFrom(c, x, tracks, opts, 1)
    ELSE Return(x, tracks, NoError)

\* GetTracks returning the tracks it fetched when a follow-up call fails.
GetTracks_KeepsPrimary(c, x, opts) ==
    Then(Query(c, x, "tracksQuery", [organizationSlug |-> c.TeamSlug]),
         LAMBDA r :
            IF r.err.isErr THEN Return(r.x, <<>>, r.err)
            ELSE Then(TracksChallenges(c, r.x, r.data, opts),
                      LAMBDA l :
                         IF l.err.isErr THEN Return(l.x, r.data, l.err)
                         ELSE Then(TracksReviews(c, l.x, r.data, opts),
                                   LAMBDA v :
                                      IF v.err.isErr
                                      THEN Return(v.x, r.data, v.err)
                                      ELSE Return(v.x, r.data, NoError))))

\* func (c *Client) GetTracks(opts ...Option) (tt []Track, err error)
GetTracks(c, x, opts) ==
    Then(Query(c, x, "tracksQuery", [organizationSlug |-> c.TeamSlug]),
         LAMBDA r :
            IF r.err.isErr THEN Return(r.x, <<>>, r.err)
            ELSE Then(TracksChallenges(c, r.x, r.data, opts),
                      LAMBDA l :
                         IF l.err.isErr THEN Return(l.x, <<>>, l.err)
                         ELSE Then(TracksReviews(c, l.x, r.data, opts),
                                   LAMBDA v :
                                      IF v.err.isErr
                                      THEN Return(v.x, <<>>, v.err)
                                      ELSE Return(v.x, r.data, NoError))))

(***************************************************************************)
(* Sandboxes                                                               *)
(***************************************************************************)
ZeroSandbox ==
    [Id |-> "", State |-> "", Track |-> ZeroSandboxTrack, User |-> [Id |-> ""]]

\* filters := &options{playType: PlayTypeAll}
SandboxDefaults == [ZeroOptions EXCEPT !.playType = PlayTypeAll]

\* func (c *Client) GetSandbox(id string, opts ...Option) (s Sandbox, err error)
GetSandbox(c, x, id, opts) ==
    Then(Query(c, x, "sandboxQuery", [id |-> id, teamSlug |-> c.TeamSlug]),
         LAMBDA r :
            IF r.err.isErr THEN Return(r.x, ZeroSandbox, r.err)
            ELSE IF ApplyFrom(SandboxDefaults, opts, 1).includeChallenges
            THEN Then(GetChallenges(c, r.x, r.data.Track.Id),
                      LAMBDA l :
                         IF l.err.isErr THEN Return(l.x, ZeroSandbox, l.err)
                         ELSE Then(UserChallengesFrom(c, l.x, r.data.User.Id,
                                                      l.val, 1),
                                   LAMBDA u :
                                      IF u.err.isErr
                                      THEN Return(u.x, ZeroSandbox, u.err)
                                      ELSE Return(u.x,
                                             [r.data EXCEPT
                                                 !.Track.Challenges = u.val],
                                             NoError)))
            ELSE Return(r.x, r.data, NoError))

\* func (c *Client) GetSandboxVariable(playID, hostname, key string)
GetSandboxVariable(c, x, playID, hostname, key) ==
    IF playID = "" \/ key = "" THEN Return(x, "", NoError)
    ELSE Then(Query(c, x, "sandboxVarQuery",
                    [hostname |-> hostname, sandboxID |-> playID,
                     key |-> key]),
              LAMBDA r :
                 IF r.err.isErr THEN Return(r.x, "", r.err)
                 ELSE Return(r.x, r.data.Value, NoError))

\* SetSandboxVariable without the guard on an empty value.
SetSandboxVariable_EmptyValueSent(c, x, playID, hostname, key, value) ==
    IF playID = "" \/ key = "" THEN Return(x, <<>>, NoError)
    ELSE Then(Mutate(c, x, "sandboxVarSet",
                     [hostname |-> hostname, sandboxID |-> playID,
                      key |-> key, value |-> value]),
              LAMBDA r :
                 IF r.err.isErr THEN Return(r.x, <<>>, r.err)
                 ELSE Return(r.x, <<>>, NoError))

\* func (c *Client) SetSandboxVariable(playID, hostname, key, value string)
\* error: the method has no result value.
SetSandboxVariable(c, x, playID, hostname, key, value) ==
    IF playID = "" \/ key = "" \/ value = "" THEN Return(x, <<>>, NoError)
    ELSE Then(Mutate(c, x, "sandboxVarSet",
                     [hostname |-> hostname, sandboxID |-> playID,
                      key |-> key, value |-> value]),
              LAMBDA r :
                 IF r.err.isErr THEN Return(r.x, <<>>, r.err)
                 ELSE Return(r.x, <<>>, NoError))

\* var queryFilter SandboxFilterInput, filled from the filters that are set;
\* User_name_or_id is never assigned and keeps its zero value.
SandboxFilterInput(filters) ==
    [Track_ids |-> filters.trackIDs, Invite_ids |-> filters.trackInviteIDs,
     Pool_ids |-> filters.poolIDs, User_name_or_id |-> "",
     State |-> filters.state]

\* for i := range q.Sandboxes.Nodes { t, err := c.GetUserTrackById(...) ...
\* q.Sandboxes.Nodes[i].Track = t }, stopping at the first error.
RECURSIVE SandboxTracksFrom(_, _, _, _)
SandboxTracksFrom(c, x, nodes, i) ==
    IF i > Len(nodes) THEN Return(x, nodes, NoError)
    ELSE Then(GetUserTrackById(c, x, nodes[i].User.Id, nodes[i].Track.Id,
                               <<WithChallenges>>),
              LAMBDA r :
                 IF r.err.isErr THEN Return(r.x, <<>>, r.err)
                 ELSE SandboxTracksFrom(c, r.x,
                                        [nodes EXCEPT ![i].Track = r.val],
                                        i + 1))

\* func (c *Client) GetSandboxes(opts ...Option) (s []Sandbox, err error)
GetSandboxes(c, x, opts) ==
    Then(Query(c, x, "sandboxesQuery",
               [teamSlug |-> c.TeamSlug,
                filter |-> SandboxFilterInput(
                               ApplyFrom(SandboxDefaults, opts, 1))]),
         LAMBDA r :
            IF r.err.isErr THEN Return(r.x, <<>>, r.err)
            ELSE IF ApplyFrom(SandboxDefaults, opts, 1).includeChallenges
            THEN SandboxTracksFrom(c, r.x, r.data, 1)
            ELSE Return(r.x, r.data, NoError))

\* The first challenge from index i on whose status lets the user in.
RECURSIVE FirstUnlockedFrom(_, _)
FirstUnlockedFrom(challenges, i) ==
    IF i > Len(challenges) THEN ZeroChallenge
    ELSE IF challenges[i].Status \in
                {"unlocked", "creating", "created", "started"}
         THEN challenges[i]
         ELSE FirstUnlockedFrom(challenges, i + 1)

\* The loop with only the "unlocked" case.
GetTrackUnlockedChallenge_UnlockedOnly(c, x, userId, trackId) ==
    Then(GetUserTrackById(c, x, userId, trackId, <<WithChallenges>>),
         LAMBDA r :
            LET hit == {i \in DOMAIN r.val.Challenges :
                           r.val.Challenges[i].Status = "unlocked"}
            IN  IF r.err.isErr
                THEN Return(r.x, ZeroChallenge,
                            Errorf("[instruqt.GetTrackUnlockedChallenge] failed to get user track: ",
                                   r.err))
                ELSE Return(r.x,
                            IF hit = {} THEN ZeroChallenge
                            ELSE r.val.Challenges[CHOOSE i \in hit :
                                                     \A j \in hit : i <= j],
                            NoError))

\* func (c *Client) GetTrackUnlockedChallenge(userId string, trackId string)
GetTrackUnlockedChallenge(c, x, userId, trackId) ==
    Then(GetUserTrackById(c, x, userId, trackId, <<WithChallenges>>),
         LAMBDA r :
            IF r.err.isErr
            THEN Return(r.x, ZeroChallenge,
                        Errorf("[instruqt.GetTrackUnlockedChallenge] failed to get user track: ",
                               r.err))
            ELSE Return(r.x, FirstUnlockedFrom(r.val.Challenges, 1), NoError))

(***************************************************************************)
(* Users                                                                   *)
(***************************************************************************)
\* Text is a sequence of characters.
Whitespace == {" ", "\t"}

\* strings.Fields(s): the maximal runs of non-whitespace characters of s,
\* reading from position i with the run cur under way.
RECURSIVE FieldsFrom(_, _, _)
FieldsFrom(s, i, cur) ==
    IF i > Len(s) THEN (IF cur = <<>> THEN <<>> ELSE <<cur>>)
    ELSE IF s[i] \in Whitespace
         THEN (IF cur = <<>> THEN <<>> ELSE <<cur>>) \o FieldsFrom(s, i + 1, <<>>)
         ELSE FieldsFrom(s, i + 1, Append(cur, s[i]))

Fields(s) == FieldsFrom(s, 1, <<>>)

\* strings.Join(parts, sep)
RECURSIVE Join(_, _)
Join(parts, sep) ==
    IF parts = <<>> THEN <<>>
    ELSE IF Len(parts) = 1 THEN parts[1]
         ELSE parts[1] \o sep \o Join(Tail(parts), sep)

ZeroUserInfo == [FirstName |-> <<>>, LastName |-> <<>>, Email |-> ""]

\* A nil *UserDetails and a nil *UserProfile.
NilDetails ==
    [isNil |-> TRUE, FirstName |-> <<>>, LastName |-> <<>>, Email |-> ""]

NilProfile == [isNil |-> TRUE, Display_Name |-> <<>>, Email |-> ""]

\* What a method leaves to its caller when it panics.
Panic(x, msg) == [x |-> x, val |-> [panic |-> msg], err |-> NoError]

\* nameParts := strings.Fields(profile.Display_Name); u.FirstName =
\* nameParts[0]; u.LastName = strings.Join(nameParts[1:], " ")
ProfileInfo(x, profile, nameParts) ==
    IF nameParts = <<>>
    THEN Panic(x, "index out of range [0] with length 0")
    ELSE Return(x,
                [FirstName |-> nameParts[1],
                 LastName |-> Join(Tail(nameParts), <<" ">>),
                 Email |-> profile.Email],
                NoError)

\* func (c *Client) GetUserInfo(userId string) (u UserInfo, err error)
GetUserInfo(c, x, userId) ==
    Then(Query(c, x, "userInfoQuery",
               [teamSlug |-> c.TeamSlug, userID |-> userId]),
         LAMBDA r :
            IF r.err.isErr
            THEN Return(r.x, ZeroUserInfo,
                        Errorf("[GetUserInfo] Failed to retrieve user info: ",
                               r.err))
            ELSE IF ~r.data.Details.isNil /\ r.data.Details.Email # ""
            THEN Return(r.x,
                        [FirstName |-> r.data.Details.FirstName,
                         LastName |-> r.data.Details.LastName,
                         Email |-> r.data.Details.Email],
                        NoError)
            ELSE IF ~r.data.Profile.isNil /\ r.data.Profile.Email # ""
            THEN ProfileInfo(r.x, r.data.Profile,
                             Fields(r.data.Profile.Display_Name))
            ELSE Return(r.x, ZeroUserInfo, NoError))

\* The display names a profile may carry.
DisplayNames == SeqsUpTo({"J", "d", " "}, MaxNameLen)

\* The users the remote service may return.
RemoteDetails ==
    { NilDetails } \cup
    { [isNil |-> FALSE, FirstName |-> <<"A", "n">>, LastName |-> <<"L", "i">>,
       Email |-> e] : e \in {"", "an@team.io"} }

RemoteProfiles ==
    { NilProfile } \cup
    { [isNil |-> FALSE, Display_Name |-> n, Email |-> e] :
          n \in DisplayNames, e \in {"", "jd@mail.io"} }

RemoteUsers ==
    { [Id |-> "u1", Details |-> d, Profile |-> p] :
          d \in RemoteDetails, p \in RemoteProfiles }

(***************************************************************************)
(* Plays                                                                   *)
(***************************************************************************)
\* filters := &options{trackIDs: []string{}, ..., playType: PlayTypeAll,
\*                     ordering: &Ordering{completion_percent, Desc}}
PlaysDefaults ==
    [ZeroOptions EXCEPT
        !.trackIDs = Slice(<<>>), !.trackInviteIDs = Slice(<<>>),
        !.landingPageIDs = Slice(<<>>), !.tags = Slice(<<>>),
        !.userIDs = Slice(<<>>), !.playType = PlayTypeAll,
        !.ordering = NewOrdering(OrderByCompletionPercent, DirectionDesc)]

\* ids := make([]graphql.String, len(s)); for i, id := range s { ids[i] = id }
GraphQLStrings(s) == Slice([i \in 1..Len(s.elems) |-> s.elems[i]])

\* The play type defaulting to NORMAL.
GetPlays_DefaultNormal(c, x, from, to, take, skip, opts) ==
    LET filters == ApplyFrom([PlaysDefaults EXCEPT !.playType = PlayTypeNormal],
                             opts, 1)
    IN  Then(Query(c, x, "playQuery",
                [teamSlug |-> c.TeamSlug, from |-> from, to |-> to,
                 trackIds |-> GraphQLStrings(filters.trackIDs),
                 trackInviteIds |-> GraphQLStrings(filters.trackInviteIDs),
                 landingPageIds |-> GraphQLStrings(filters.landingPageIDs),
                 tags |-> GraphQLStrings(filters.tags),
                 userIds |-> GraphQLStrings(filters.userIDs),
                 take |-> take, skip |-> skip,
                 playType |-> filters.playType,
                 orderBy |-> filters.ordering.OrderBy,
                 orderDirection |-> filters.ordering.Direction]),
             LAMBDA r :
                IF r.err.isErr
                THEN Return(r.x, [Items |-> NilSlice, TotalItems |-> 0],
                            Errorf("GraphQL query failed: ", r.err))
                ELSE Return(r.x, [Items |-> Slice(r.data.Items),
                                  TotalItems |-> r.data.TotalItems],
                            NoError))

\* The filter slices forwarded as the options left them, unconverted.
GetPlays_Unconverted(c, x, from, to, take, skip, opts) ==
    LET filters == ApplyFrom(PlaysDefaults, opts, 1)
    IN  Then(Query(c, x, "playQuery",
                [teamSlug |-> c.TeamSlug, from |-> from, to |-> to,
                 trackIds |-> filters.trackIDs,
                 trackInviteIds |-> filters.trackInviteIDs,
                 landingPageIds |-> filters.landingPageIDs,
                 tags |-> filters.tags,
                 userIds |-> filters.userIDs,
                 take |-> take, skip |-> skip,
                 playType |-> filters.playType,
                 orderBy |-> filters.ordering.OrderBy,
                 orderDirection |-> filters.ordering.Direction]),
             LAMBDA r :
                IF r.err.isErr
                THEN Return(r.x, [Items |-> NilSlice, TotalItems |-> 0],
                            Errorf("GraphQL query failed: ", r.err))
                ELSE Return(r.x, [Items |-> Slice(r.data.Items),
                                  TotalItems |-> r.data.TotalItems],
                            NoError))

\* variables := map[string]interface{}{...}: the variables of the plays
\* query, from the arguments and the filters.
PlaysVariables(c, filters, from, to, take, skip) ==
    [teamSlug |-> c.TeamSlug, from |-> from, to |-> to,
     trackIds |-> GraphQLStrings(filters.trackIDs),
     trackInviteIds |-> GraphQLStrings(filters.trackInviteIDs),
     landingPageIds |-> GraphQLStrings(filters.landingPageIDs),
     tags |-> GraphQLStrings(filters.tags),
     userIds |-> GraphQLStrings(filters.userIDs),
     take |-> take, skip |-> skip,
     playType |-> filters.playType,
     orderBy |-> filters.ordering.OrderBy,
     orderDirection |-> filters.ordering.Direction]

\* func (c *Client) GetPlays(from, to time.Time, take, skip int, opts ...Option)
GetPlays(c, x, from, to, take, skip, opts) ==
    LET filters == ApplyFrom(PlaysDefaults, opts, 1)
    IN  Then(Query(c, x, "playQuery",
                   PlaysVariables(c, filters, from, to, take, skip)),
             LAMBDA r :
                IF r.err.isErr
                THEN Return(r.x, [Items |-> NilSlice, TotalItems |-> 0],
                            Errorf("GraphQL query failed: ", r.err))
                ELSE Return(r.x, [Items |-> Slice(r.data.Items),
                                  TotalItems |-> r.data.TotalItems],
                            NoError))

\* The options the callers of GetPlays pass.
PlaysOptions ==
    {WithTrackIDs(<<>>), WithTrackIDs(<<"t1", "t2">>), WithTrackIDs(<<"t2">>),
     WithTrackInviteIDs(<<>>), WithTrackInviteIDs(<<"inv1">>),
     WithTags(<<>>), WithTags(<<"cilium", "ebpf">>),
     WithUserIDs(<<>>), WithUserIDs(<<"u1">>),
     WithPlayType(PlayTypeDeveloper), WithPlayType(PlayTypeNormal),
     WithOrdering(OrderByTimeSpent, DirectionAsc),
     WithOrdering(OrderByCompletionPercent, DirectionAsc),
     WithPlay}

PlaysOptionLists == SeqsUpTo(PlaysOptions, 2)

\* The date ranges and pages the callers of GetPlays ask for.
PlaysArgs ==
    { [from |-> "2024-01-01", to |-> "2024-01-31", take |-> 10, skip |-> k] :
          k \in {0, 10} }

(***************************************************************************)
(* The bearer-token transport                                              *)
(***************************************************************************)
\* http.Header: for every header name the list of its values (none: absent).
HeaderNames == {"Authorization", "Accept"}

\* h.Set(key, value): the values of key are replaced by the single value.
HeaderSet(h, key, value) == [h EXCEPT ![key] = <<value>>]

\* h.Add(key, value): value is appended to the values of key.
HeaderAdd(h, key, value) == [h EXCEPT ![key] = Append(@, value)]

\* &BearerTokenRoundTripper{Transport: ..., Token: token}
NewRoundTripper(token) == [isNil |-> FALSE, Token |-> token]

NilRoundTripper == [isNil |-> TRUE, Token |-> ""]

\* What the underlying transport may return: a response or an error.
TransportOutcomes ==
    { [resp |-> "200 OK", err |-> NoError],
      [resp |-> "401 Unauthorized", err |-> NoError],
      [resp |-> "nil", err |-> [isErr |-> TRUE, text |-> "dial tcp: timeout"]] }

\* rt.Transport.RoundTrip(req): the transport receives the request as it is at
\* that moment and answers with outcome.
Delegate(log, r, outcome) ==
    [log |-> Append(log, [req |-> r, outcome |-> outcome]),
     resp |-> outcome.resp, err |-> outcome.err]

\* RoundTrip adding the header value instead of setting it.
RoundTrip_Add(t, r, outcome) ==
    LET r1 == [r EXCEPT !.Header =
                  HeaderAdd(@, "Authorization", "Bearer " \o t.Token)]
        d == Delegate(<<>>, r1, outcome)
    IN  [req |-> r1, log |-> d.log, resp |-> d.resp, err |-> d.err]

\* func (rt *BearerTokenRoundTripper) RoundTrip(req *http.Request)
RoundTrip(t, r, outcome) ==
    LET r1 == [r EXCEPT !.Header =
                  HeaderSet(@, "Authorization", "Bearer " \o t.Token)]
        d == Delegate(<<>>, r1, outcome)
    IN  [req |-> r1, log |-> d.log, resp |-> d.resp, err |-> d.err]

\* The tokens a round tripper is built with.
BearerTokens == {"test-token", "tok-2", ""}

\* The requests sent through the round tripper.
TransportRequests ==
    { [Method |-> m, URL |-> "http://example.com",
       Header |-> [n \in HeaderNames |->
                      IF n = "Authorization" THEN a ELSE c]] :
          m \in {"GET", "POST"},
          a \in {<<>>, <<"Basic dXNlcg==">>, <<"Bearer stale">>,
                 <<"Bearer a", "Bearer b">>},
          c \in {<<>>, <<"application/json">>} }

ZeroRequest ==
    [Method |-> "", URL |-> "", Header |-> [n \in HeaderNames |-> <<>>]]

NoRequest == [given |-> ZeroRequest, left |-> ZeroRequest]

NoRoundTrip == [resp |-> "none", err |-> NoError]

\* rt := &BearerTokenRoundTripper{Transport: mockTransport, Token: token}
BuildRoundTripper ==
    /\ \E token \in BearerTokens : rt' = NewRoundTripper(token)
    /\ rtreq' = NoRequest
    /\ delegated' = <<>>
    /\ rtret' = NoRoundTrip
    /\ UNCHANGED <<client, ret, calls, ctxVars, repVars, whVars, coVars>>

\* resp, err := rt.RoundTrip(req)
CallRoundTrip ==
    /\ ~rt.isNil
    /\ \E r \in TransportRequests, outcome \in TransportOutcomes :
          LET t == RoundTrip(rt, r, outcome)
          IN  /\ rtreq' = [given |-> r, left |-> t.req]
              /\ delegated' = t.log
              /\ rtret' = [resp |-> t.resp, err |-> t.err]
    /\ UNCHANGED <<rt, client, ret, calls, ctxVars, repVars, whVars, coVars>>

TransportNext == BuildRoundTripper \/ CallRoundTrip

(***************************************************************************)
(* Calls on the client                                                     *)
(***************************************************************************)
\* No method call has returned a result that is still held by the caller.
NoArgs == [from |-> "", to |-> "", take |-> 0, skip |-> 0]

NoReturn ==
    [method |-> "none", id |-> "", userId |-> "", args |-> NoArgs,
     opts |-> <<>>, val |-> <<>>, err |-> NoError]

\* The caller holds the result r of method(userId, id, args..., opts...).
ReturnedWith(method, userId, id, args, opts, r) ==
    /\ ret' = [method |-> method, id |-> id, userId |-> userId,
               args |-> args, opts |-> opts, val |-> r.val, err |-> r.err]
    /\ calls' = r.x.calls
    /\ UNCHANGED <<client, ctxVars, rtVars, repVars, whVars, coVars>>

\* The caller holds the result r of method(userId, id, opts...).
Returned(method, userId, id, opts, r) ==
    ReturnedWith(method, userId, id, NoArgs, opts, r)

\* No client has been derived with WithContext.
NoDerived == [ctx |-> "nil", c |-> ZeroClient]

\* The client the methods are called on.
Receiver == IF receiver = "derived" THEN derived.c ELSE client

\* WithContext while it also stored ctx in the receiver.
DeriveWithContext_SharedContext ==
    /\ ret.method = "none"
    /\ \E ctx \in Contexts :
          /\ client' = [client EXCEPT !.Context = ctx]
          /\ derived' = [ctx |-> ctx, c |-> WithContext(client', ctx)]
    /\ UNCHANGED <<ret, calls, receiver, rtVars, repVars, whVars, coVars>>

\* clientWithCtx := client.WithContext(ctx)
DeriveWithContext ==
    /\ ret.method = "none"
    /\ \E ctx \in Contexts :
          derived' = [ctx |-> ctx, c |-> WithContext(client, ctx)]
    /\ UNCHANGED <<client, ret, calls, receiver, rtVars, repVars, whVars, coVars>>

\* The caller goes on with the other of its two clients.
UseClient ==
    /\ ret.method = "none"
    /\ derived # NoDerived
    /\ receiver' = IF receiver = "derived" THEN "client" ELSE "derived"
    /\ UNCHANGED <<client, ret, calls, derived, rtVars, repVars, whVars, coVars>>

\* The remote services a track method may meet.
TrackRemotes ==
    { NewRemote(f, t, l, [i \in {"c1", "c2"} |-> "unlocked"], v) :
          f \in 0..3, t \in RemoteTracks,
          l \in RemoteChallengeLists, v \in RemoteReviews }

\* Challenge lists the remote service may return for a per-user track
\* method: a listed challenge may come without an id.
UserChallengeLists ==
    { [i \in DOMAIN ids |-> [Id |-> ids[i], Status |-> ""]] :
          ids \in SeqsUpTo({"c1", "c2", ""}, MaxChallenges) }

\* The remote services a per-user track method may meet.
UserTrackRemotes ==
    { NewRemote(f, [Id |-> "t1", Slug |-> "cilium-intro"], l, s, v) :
          f \in 0..(MaxChallenges + 3),
          l \in UserChallengeLists,
          s \in UserStatuses, v \in RemoteReviews }

\* The remote services a single-query method may meet.
PlainRemotes ==
    { NewRemote(f, [Id |-> "", Slug |-> ""], l, s, ZeroReviews) :
          f \in 0..1, l \in RemoteChallengeLists,
          s \in UserStatuses }

CallGetTrackById ==
    /\ ret.method = "none"
    /\ \E id \in TrackIds, opts \in OptionLists, remote \in TrackRemotes :
          Returned("GetTrackById", "", id, opts,
                   GetTrackById(Receiver, NewExec(remote), id, opts))

CallGetUserTrackById ==
    /\ ret.method = "none"
    /\ \E u \in UserIds, id \in TrackIds, opts \in OptionLists,
          remote \in UserTrackRemotes :
          Returned("GetUserTrackById", u, id, opts,
                   GetUserTrackById(Receiver, NewExec(remote), u, id, opts))

CallGetTrackBySlug ==
    /\ ret.method = "none"
    /\ \E slug \in TrackSlugs, opts \in OptionLists, remote \in TrackRemotes :
          Returned("GetTrackBySlug", "", slug, opts,
                   GetTrackBySlug(Receiver, NewExec(remote), slug, opts))

CallGetChallenges ==
    /\ ret.method = "none"
    /\ \E id \in TrackIds, remote \in PlainRemotes :
          Returned("GetChallenges", "", id, <<>>,
                   GetChallenges(Receiver, NewExec(remote), id))

CallGetChallenge ==
    /\ ret.method = "none"
    /\ \E id \in ChallengeIds, remote \in PlainRemotes :
          Returned("GetChallenge", "", id, <<>>,
                   GetChallenge(Receiver, NewExec(remote), id))

CallGetUserChallenge ==
    /\ ret.method = "none"
    /\ \E u \in UserIds, id \in ChallengeIds, remote \in PlainRemotes :
          Returned("GetUserChallenge", u, id, <<>>,
                   GetUserChallenge(Receiver, NewExec(remote), u, id))

CallGetInvite ==
    /\ ret.method = "none"
    /\ \E id \in InviteIds, remote \in PlainRemotes :
          Returned("GetInvite", "", id, <<>>,
                   GetInvite(Receiver, NewExec(remote), id))

\* The reviews the remote service may answer a review query with: a
\* review with or without a play, and the all-zero review.
RemoteReview ==
    { [Id |-> "r1", Play |-> "p1"], [Id |-> "r1", Play |-> "nil"],
      [Id |-> "", Play |-> "nil"] }

CallGetReview ==
    /\ ret.method = "none"
    /\ \E id \in ReviewIds, opts \in ReviewOptionLists, f \in 0..1,
          v \in RemoteReview :
          Returned("GetReview", "", id, opts,
                   GetReview(Receiver, NewExec([failAt |-> f, review |-> v]),
                             id, opts))

CallGetTrackUnlockedChallenge ==
    /\ ret.method = "none"
    /\ \E u \in UserIds, id \in TrackIds, remote \in UserTrackRemotes :
          Returned("GetTrackUnlockedChallenge", u, id, <<>>,
                   GetTrackUnlockedChallenge(Receiver, NewExec(remote), u, id))

CallGetPlays ==
    /\ ret.method = "none"
    /\ \E a \in PlaysArgs, opts \in PlaysOptionLists, f \in 0..1 :
          ReturnedWith("GetPlays", "", "", a, opts,
                       GetPlays(Receiver,
                                NewExec([failAt |-> f]),
                                a.from, a.to, a.take, a.skip, opts))

CallGetUserInfo ==
    /\ ret.method = "none"
    /\ \E id \in UserIds, f \in 0..1, u \in RemoteUsers :
          Returned("GetUserInfo", "", id, <<>>,
                   GetUserInfo(Receiver, NewExec([failAt |-> f, user |-> u]),
                               id))

\* The statuses the remote service holds for the user of a sandbox.
SandboxUserStatuses ==
    { [i \in {"c1", "c2"} |-> IF i = "c1" THEN a ELSE b] :
          a \in {"completed", "started"}, b \in {"locked"} }

\* The track lists the remote service may return for a team.
RemoteTrackLists ==
    { [i \in DOMAIN l |->
          [Id |-> l[i].Id, Slug |-> l[i].Slug, Challenges |-> <<>>,
           TrackReviews |-> ZeroReviews]] :
          l \in SeqsUpTo(RemoteTracks, MaxTracks) }

\* The sandbox lists the remote service may return for a team.
RemoteSandboxLists ==
    { [i \in DOMAIN l |->
          [Id |-> "sb1", State |-> "active",
           Track |-> [ZeroSandboxTrack EXCEPT !.Id = l[i]],
           User |-> [Id |-> "u1"]]] :
          l \in SeqsUpTo({"t1", ""}, MaxTracks) }

CallGetTracks ==
    /\ ret.method = "none"
    /\ \E opts \in OptionLists, f \in 0..(2 * MaxTracks + 2),
          tracks \in RemoteTrackLists, l \in RemoteChallengeLists,
          v \in RemoteReviews :
          Returned("GetTracks", "", "", opts,
                   GetTracks(Receiver,
                             NewExec([failAt |-> f, tracks |-> tracks,
                                      challenges |-> l, reviews |-> v]),
                             opts))

CallGetSandbox ==
    /\ ret.method = "none"
    /\ \E id \in SandboxIds, opts \in OptionLists,
          f \in 0..(MaxChallenges + 3), t \in RemoteTracks,
          l \in RemoteChallengeLists, st \in SandboxUserStatuses :
          Returned("GetSandbox", "", id, opts,
                   GetSandbox(Receiver,
                              NewExec([failAt |-> f, track |-> t,
                                       challenges |-> l, userStatus |-> st]),
                              id, opts))

CallGetSandboxes ==
    /\ ret.method = "none"
    /\ \E opts \in OptionLists,
          f \in 0..(MaxTracks * (MaxChallenges + 2) + 2),
          nodes \in RemoteSandboxLists, l \in RemoteChallengeLists,
          st \in SandboxUserStatuses :
          Returned("GetSandboxes", "", "", opts,
                   GetSandboxes(Receiver,
                                NewExec([failAt |-> f, sandboxes |-> nodes,
                                         track |-> [Id |-> "t1",
                                                    Slug |-> "cilium-intro"],
                                         challenges |-> l,
                                         userStatus |-> st]),
                                opts))

\* The filter options the callers of GetSandboxes pass.
SandboxFilters ==
    {WithTrackIDs(<<"t1", "t2">>), WithTrackIDs(<<>>),
     WithTrackInviteIDs(<<"inv1">>), WithPoolIDs(<<"pool1", "pool2">>),
     WithUserIDs(<<"u1">>), WithUserIDs(<<"u1", "u2">>), WithState("active")}

\* GetSandboxes called with filters, on a team without sandboxes.
CallGetSandboxesFiltered ==
    /\ ret.method = "none"
    /\ \E opts \in SeqsUpTo(SandboxFilters, 2), f \in 0..1 :
          Returned("GetSandboxes", "", "", opts,
                   GetSandboxes(Receiver,
                                NewExec([failAt |-> f, sandboxes |-> <<>>]),
                                opts))

\* The arguments of a sandbox-variable call.
VariableArgs ==
    [hostname : {"", "server"}, key : {"", "MY_VAR"},
     value : {"", "value123"}]

CallGetSandboxVariable ==
    /\ ret.method = "none"
    /\ \E id \in SandboxIds, a \in VariableArgs, f \in 0..1,
          v \in {"", "value123"} :
          /\ a.value = ""
          /\ ReturnedWith("GetSandboxVariable", "", id, a, <<>>,
                          GetSandboxVariable(Receiver,
                              NewExec([failAt |-> f, value |-> v]),
                              id, a.hostname, a.key))

CallSetSandboxVariable ==
    /\ ret.method = "none"
    /\ \E id \in SandboxIds, a \in VariableArgs, f \in 0..1 :
          ReturnedWith("SetSandboxVariable", "", id, a, <<>>,
                       SetSandboxVariable(Receiver,
                           NewExec([failAt |-> f, value |-> ""]),
                           id, a.hostname, a.key, a.value))

\* A call: the method, its arguments and its options.
NewCall(method, userId, id, args, opts) ==
    [method |-> method, userId |-> userId, id |-> id, args |-> args,
     opts |-> opts]

\* The calls a caller repeats: every Get method, with non-empty arguments.
RepeatedCalls ==
    { NewCall(m, "", "t1", NoArgs, o) :
          m \in {"GetTrackById", "GetReviews"}, o \in OptionLists }
    \cup { NewCall("GetTrackBySlug", "", "cilium-intro", NoArgs, o) :
              o \in OptionLists }
    \cup { NewCall("GetUserTrackById", "u1", "t1", NoArgs, o) :
              o \in OptionLists }
    \cup { NewCall(m, "", "", NoArgs, o) :
              m \in {"GetTracks", "GetSandboxes"}, o \in OptionLists }
    \cup { NewCall("GetSandbox", "", "sb1", NoArgs, o) : o \in OptionLists }
    \cup { NewCall("GetReview", "", "r1", NoArgs, o) :
              o \in ReviewOptionLists }
    \cup { NewCall("GetPlays", "", "", a, o) :
              a \in PlaysArgs, o \in PlaysOptionLists }
    \cup { NewCall("GetChallenge", "", id, NoArgs, <<>>) :
              id \in {"c1", "c2"} }
    \cup { NewCall("GetUserChallenge", "u1", id, NoArgs, <<>>) :
              id \in {"c1", "c2"} }
    \cup { NewCall("GetChallenges", "", "t1", NoArgs, <<>>),
           NewCall("GetInvite", "", "inv1", NoArgs, <<>>),
           NewCall("GetUserInfo", "", "u1", NoArgs, <<>>),
           NewCall("GetTrackUnlockedChallenge", "u1", "t1", NoArgs, <<>>) }

\* The method of call p, called on client c.
Invoke(c, x, p) ==
    CASE p.method = "GetTrackById" -> GetTrackById(c, x, p.id, p.opts)
      [] p.method = "GetTrackBySlug" -> GetTrackBySlug(c, x, p.id, p.opts)
      [] p.method = "GetUserTrackById" ->
            GetUserTrackById(c, x, p.userId, p.id, p.opts)
      [] p.method = "GetTracks" -> GetTracks(c, x, p.opts)
      [] p.method = "GetReviews" -> GetReviews(c, x, p.id, p.opts)
      [] p.method = "GetReview" -> GetReview(c, x, p.id, p.opts)
      [] p.method = "GetSandbox" -> GetSandbox(c, x, p.id, p.opts)
      [] p.method = "GetSandboxes" -> GetSandboxes(c, x, p.opts)
      [] p.method = "GetPlays" ->
            GetPlays(c, x, p.args.from, p.args.to, p.args.take, p.args.skip,
                     p.opts)
      [] p.method = "GetChallenge" -> GetChallenge(c, x, p.id)
      [] p.method = "GetUserChallenge" ->
            GetUserChallenge(c, x, p.userId, p.id)
      [] p.method = "GetChallenges" -> GetChallenges(c, x, p.id)
      [] p.method = "GetInvite" -> GetInvite(c, x, p.id)
      [] p.method = "GetUserInfo" -> GetUserInfo(c, x, p.id)
      [] p.method = "GetTrackUnlockedChallenge" ->
            GetTrackUnlockedChallenge(c, x, p.userId, p.id)

\* The remote services a repeated call may meet: every call answered, the
\* primary call failing, or the first follow-up call failing.
RepeatRemotes ==
    { [failAt |-> f,
       track |-> [Id |-> "t1", Slug |-> "cilium-intro"],
       tracks |-> <<[Id |-> "t1", Slug |-> "cilium-intro",
                     Challenges |-> <<>>, TrackReviews |-> ZeroReviews]>>,
       sandboxes |-> <<[Id |-> "sb1", State |-> "active",
                        Track |-> [ZeroSandboxTrack EXCEPT !.Id = "t1"],
                        User |-> [Id |-> "u1"]]>>,
       challenges |-> l,
       userStatus |-> [i \in {"c1", "c2"} |-> "unlocked"],
       reviews |-> v,
       review |-> [Id |-> "r1", Play |-> "p1"],
       user |-> [Id |-> "u1", Details |-> NilDetails,
                 Profile |-> [isNil |-> FALSE, Display_Name |-> <<"J", " ", "d">>,
                              Email |-> "jd@mail.io"]]] :
          f \in 0..2,
          l \in {<<>>, <<[Id |-> "c1", Status |-> ""]>>},
          v \in RemoteReviews }

\* The call held in ret.
CallOf(r) == NewCall(r.method, r.userId, r.id, r.args, r.opts)

\* A client that answers a repeated call from the result of the call before
\* it when that call succeeded.
RepeatCall_Cached ==
    /\ ninvoke < MaxRepeats
    /\ \E p \in RepeatedCalls :
          /\ ninvoke = 0 \/ p = CallOf(ret)
          /\ \E remote \in RepeatRemotes :
                \E r \in {Invoke(client, NewExec(remote), p)},
                   hit \in {ninvoke > 0 /\ ~ret.err.isErr} :
                    /\ ret' = IF hit THEN ret
                              ELSE [method |-> p.method, id |-> p.id,
                                    userId |-> p.userId, args |-> p.args,
                                    opts |-> p.opts, val |-> r.val,
                                    err |-> r.err]
                    /\ calls' = IF hit THEN <<>> ELSE r.x.calls
                    /\ nprimary' = IF hit \/ r.x.calls = <<>> THEN nprimary
                                   ELSE nprimary + 1
    /\ ninvoke' = ninvoke + 1
    /\ UNCHANGED <<client, ctxVars, rtVars, whVars, coVars>>

\* The caller makes a call, or makes the call it made before once more.
RepeatCall ==
    /\ ninvoke < MaxRepeats
    /\ \E p \in RepeatedCalls :
          /\ ninvoke = 0 \/ p = CallOf(ret)
          /\ \E remote \in RepeatRemotes :
                \E r \in {Invoke(client, NewExec(remote), p)} :
                    /\ ret' = [method |-> p.method, id |-> p.id,
                               userId |-> p.userId, args |-> p.args,
                               opts |-> p.opts, val |-> r.val, err |-> r.err]
                    /\ calls' = r.x.calls
                    /\ nprimary' = IF r.x.calls = <<>> THEN nprimary
                                   ELSE nprimary + 1
    /\ ninvoke' = ninvoke + 1
    /\ UNCHANGED <<client, ctxVars, rtVars, whVars, coVars>>

(***************************************************************************)
(* Concurrent calls on one client                                          *)
(***************************************************************************)
\* The goroutines that call methods on the client.
Procs == {"a", "b"}

\* A goroutine that is not in a call: the locals of a call are its option
\* accumulator acc, the index i of the option the loop is at, its decode
\* target q and its results val and err; x is the executor as this call
\* sees it; ov tells that the call ran while another one was in flight.
IdleProc ==
    [pc |-> "idle", method |-> "none", id |-> "", args |-> NoArgs,
     opts |-> <<>>, i |-> 1, acc |-> ZeroOptions,
     x |-> NewExec([failAt |-> 0]), q |-> <<>>, val |-> <<>>,
     err |-> NoError, ov |-> FALSE]

\* The calls the goroutines make.
ConcurrentCalls ==
    { NewCall("GetPlays", "", "",
              [from |-> "2024-01-01", to |-> "2024-01-31", take |-> 10,
               skip |-> 0], o) :
          o \in {<<WithTrackIDs(<<"t1", "t2">>)>>,
                 <<WithPlayType(PlayTypeDeveloper), WithUserIDs(<<"u1">>)>>,
                 <<WithTrackIDs(<<"t2">>),
                   WithOrdering(OrderByTimeSpent, DirectionAsc)>>} }
    \cup { NewCall("GetTrackById", "", "t1", NoArgs, o) :
              o \in {<<>>, <<WithChallenges>>, <<WithReviews, WithPlay>>,
                     <<WithChallenges, WithReviews>>} }
    \cup { NewCall("GetTrackById", "", "", NoArgs, <<WithChallenges>>) }

\* The remote service as a call sees it.
ConcurrentRemotes ==
    { NewRemote(f, [Id |-> "t1", Slug |-> "cilium-intro"],
                <<[Id |-> "c1", Status |-> ""]>>,
                [i \in {"c1", "c2"} |-> "unlocked"],
                [TotalCount |-> 1, Nodes |-> <<[Id |-> "r1", Play |-> "p1"]>>]) :
          f \in 0..2 }

\* Goroutine o is inside a call.
InFlight(o) == proc[o].pc \notin {"idle", "done"}

\* Goroutine p takes a step that leaves its locals as next; nothing else
\* is written.
Advance(p, next) ==
    /\ proc' = [o \in Procs |->
                  IF o = p
                  THEN [next EXCEPT
                           !.ov = @ \/ \E u \in Procs \ {p} : InFlight(u)]
                  ELSE IF InFlight(o) THEN [proc[o] EXCEPT !.ov = TRUE]
                       ELSE proc[o]]
    /\ UNCHANGED <<client, ret, calls, ctxVars, rtVars, repVars, whVars>>

\* The call of the goroutine with locals s returns val and err, having left
\* the executor as x.
Returns(s, x, val, err) ==
    [s EXCEPT !.pc = "done", !.x = x, !.val = val, !.err = err]

\* The method is entered: the guard on the id, then options := &options{}
\* (GetTrackById) or filters := &options{...defaults} (GetPlays).
Begin(p) ==
    /\ proc[p].pc = "idle"
    /\ \E call \in ConcurrentCalls, remote \in ConcurrentRemotes :
          Advance(p, IF call.method = "GetTrackById" /\ call.id = ""
                  THEN [IdleProc EXCEPT
                           !.pc = "done", !.method = call.method,
                           !.opts = call.opts, !.x = NewExec(remote),
                           !.val = ZeroTrack]
                  ELSE [IdleProc EXCEPT
                           !.pc = IF call.opts = <<>> THEN "query"
                                  ELSE "options",
                           !.method = call.method, !.id = call.id,
                           !.args = call.args, !.opts = call.opts,
                           !.x = NewExec(remote),
                           !.acc = IF call.method = "GetPlays"
                                   THEN PlaysDefaults ELSE ZeroOptions])

\* The option loop writing every option into one accumulator that all the
\* calls in flight use.
ApplyNext_SharedAccumulator(p) ==
    /\ proc[p].pc = "options"
    /\ proc' = [o \in Procs |->
                  IF o = p
                  THEN [proc[p] EXCEPT
                           !.acc = ApplyOption(@, proc[p].opts[proc[p].i]),
                           !.i = @ + 1,
                           !.pc = IF proc[p].i = Len(proc[p].opts)
                                  THEN "query" ELSE "options"]
                  ELSE IF InFlight(o)
                       THEN [proc[o] EXCEPT
                                !.acc = ApplyOption(@,
                                                    proc[p].opts[proc[p].i]),
                                !.ov = TRUE]
                       ELSE proc[o]]
    /\ UNCHANGED <<client, ret, calls, ctxVars, rtVars, repVars, whVars>>

\* for _, opt := range opts { opt(options) }: one turn of the loop, on the
\* accumulator of this call.
ApplyNext(p) ==
    /\ proc[p].pc = "options"
    /\ Advance(p, [proc[p] EXCEPT
                   !.acc = ApplyOption(@, proc[p].opts[proc[p].i]),
                   !.i = @ + 1,
                   !.pc = IF proc[p].i = Len(proc[p].opts)
                          THEN "query" ELSE "options"])

\* var q ...; c.GraphQLClient.Query(c.Context, &q, variables): the primary
\* query, decoded into the target of this call.
Primary(p) ==
    /\ proc[p].pc = "query"
    /\ IF proc[p].method = "GetPlays"
       THEN \E r \in {Query(client, proc[p].x, "playQuery",
                            PlaysVariables(client, proc[p].acc,
                                           proc[p].args.from, proc[p].args.to,
                                           proc[p].args.take,
                                           proc[p].args.skip))} :
               Advance(p, IF r.err.isErr
                       THEN Returns(proc[p], r.x,
                                    [Items |-> NilSlice, TotalItems |-> 0],
                                    Errorf("GraphQL query failed: ", r.err))
                       ELSE Returns([proc[p] EXCEPT !.q = r.data], r.x,
                                    [Items |-> Slice(r.data.Items),
                                     TotalItems |-> r.data.TotalItems],
                                    NoError))
       ELSE \E r \in {Query(client, proc[p].x, "trackQuery",
                            [trackId |-> proc[p].id])} :
               Advance(p, IF r.err.isErr
                       THEN Returns(proc[p], r.x, ZeroTrack, r.err)
                       ELSE [proc[p] EXCEPT !.pc = "challenges", !.x = r.x,
                                            !.q = r.data])

\* if options.includeChallenges { challenges, err := c.GetChallenges(trackId)
\* ... q.Track.Challenges = challenges }
Challenges(p) ==
    /\ proc[p].pc = "challenges"
    /\ IF proc[p].acc.includeChallenges
       THEN \E r \in {GetChallenges(client, proc[p].x, proc[p].id)} :
               Advance(p, IF r.err.isErr
                       THEN Returns(proc[p], r.x, ZeroTrack,
                                Errorf("failed to fetch challenges for track: ",
                                       r.err))
                       ELSE [proc[p] EXCEPT !.pc = "reviews", !.x = r.x,
                                            !.q.Challenges = r.val])
       ELSE Advance(p, [proc[p] EXCEPT !.pc = "reviews"])

\* if options.includeReviews { ... c.GetReviews(trackId, opts...) ... };
\* return q.Track, nil
Reviews(p) ==
    /\ proc[p].pc = "reviews"
    /\ IF proc[p].acc.includeReviews
       THEN \E r \in {GetReviews(client, proc[p].x, proc[p].id,
                                 proc[p].opts)} :
               Advance(p, IF r.err.isErr
                       THEN Returns(proc[p], r.x, ZeroTrack,
                                Errorf("failed to fetch reviews for track: ",
                                       r.err))
                       ELSE Returns(proc[p], r.x,
                                    [proc[p].q EXCEPT !.TrackReviews = r.val],
                                    NoError))
       ELSE Advance(p, Returns(proc[p], proc[p].x, proc[p].q, NoError))

\* The caller takes the result.
Collect(p) ==
    /\ proc[p].pc = "done"
    /\ Advance(p, IdleProc)

ConcurrentNext ==
    \E p \in Procs :
        \/ Begin(p)
        \/ ApplyNext(p)
        \/ Primary(p)
        \/ Challenges(p)
        \/ Reviews(p)
        \/ Collect(p)

\* The caller is done with the result it held.
Discard ==
    /\ ret.method # "none"
    /\ ret' = NoReturn
    /\ calls' = <<>>
    /\ UNCHANGED <<client, ctxVars, rtVars, repVars, whVars, coVars>>

(***************************************************************************)
(* Options applied to an accumulator, one after the other                  *)
(***************************************************************************)
\* The options a caller may pass to a method.
AllOptions ==
    PlaysOptions \cup
    {WithChallenges, WithReviews, WithAssignment, WithState("active"),
     WithState(""), WithPoolIDs(<<"pool1", "pool2">>), WithPoolIDs(<<>>)}

\* options := &options{} or filters := &options{...}: ret.val holds the
\* accumulator as the method created it.
NewAccumulator ==
    /\ ret.method = "none"
    /\ \E o \in {ZeroOptions, PlaysDefaults, SandboxDefaults} :
          ret' = [NoReturn EXCEPT !.method = "options", !.val = <<o>>]
    /\ UNCHANGED <<client, calls, ctxVars, rtVars, repVars, whVars, coVars>>

\* opt(options) for the next option of the list: ret.opts holds the options
\* applied so far and ret.val the accumulator after each of them.
ApplyNextOption ==
    /\ ret.method = "options"
    /\ Len(ret.opts) < MaxOptions
    /\ \E opt \in AllOptions :
          ret' = [ret EXCEPT
                     !.opts = Append(@, opt),
                     !.val = Append(@, ApplyOption(ret.val[Len(ret.val)],
                                                   opt))]
    /\ UNCHANGED <<client, calls, ctxVars, rtVars, repVars, whVars, coVars>>

OptionsNext == NewAccumulator \/ ApplyNextOption \/ Discard

ClientNext ==
    \/ CallGetTrackById
    \/ CallGetUserTrackById
    \/ CallGetTrackBySlug
    \/ CallGetChallenges
    \/ CallGetChallenge
    \/ CallGetUserChallenge
    \/ CallGetReview
    \/ CallGetUserInfo
    \/ CallGetTracks
    \/ CallGetSandbox
    \/ CallGetSandboxes
    \/ CallGetSandboxesFiltered
    \/ CallGetPlays
    \/ CallGetTrackUnlockedChallenge
    \/ CallGetInvite
    \/ CallGetSandboxVariable
    \/ CallSetSandboxVariable
    \/ Discard

(***************************************************************************)
(* The webhook endpoint serving requests                                   *)
(***************************************************************************)
WebhookInit ==
    /\ secret \in Secrets
    /\ req = [Method |-> "GET", BodyErr |-> FALSE,
              Body |-> Payload("null", "absent", ""),
              Sig |-> Sign(AttackerKey, Payload("null", "absent", ""))]
    /\ cb = [status |-> 0, body |-> "", err |-> NoError]
    /\ resp = StartRun
    /\ nreq = 0
    /\ repeated = FALSE
    /\ client = NewClient("token", "isovalent")
    /\ ret = NoReturn
    /\ calls = <<>>
    /\ derived = NoDerived
    /\ receiver = "client"
    /\ rt = NilRoundTripper
    /\ rtreq = NoRequest
    /\ delegated = <<>>
    /\ rtret = NoRoundTrip
    /\ ninvoke = 0
    /\ nprimary = 0
    /\ proc = [p \in Procs |-> IdleProc]

\* ServeHTTP with a replay guard: a request equal to the one served just
\* before it is turned away instead of handled.
ServeHTTP_ReplayGuard ==
    /\ nreq < MaxRequests
    /\ \E r \in Requests, b \in Callbacks :
          /\ req' = r
          /\ cb' = b
          /\ resp' = IF nreq > 0 /\ r = req
                     THEN Reject(StartRun, "Duplicate webhook", StatusBadRequest)
                     ELSE HandleWebhook(b, secret, r)
          /\ repeated' = (nreq > 0 /\ r = req /\ b = cb)
    /\ nreq' = nreq + 1
    /\ UNCHANGED secret
    /\ UNCHANGED clVars

\* webhookHandler.ServeHTTP(rr, req)
ServeHTTP ==
    /\ nreq < MaxRequests
    /\ \E r \in Requests, b \in Callbacks :
          /\ req' = r
          /\ cb' = b
          /\ resp' = HandleWebhook(b, secret, r)
          /\ repeated' = (nreq > 0 /\ r = req /\ b = cb)
    /\ nreq' = nreq + 1
    /\ UNCHANGED secret
    /\ UNCHANGED clVars

WebhookNext == ServeHTTP

WebhookSpec == WebhookInit /\ [][WebhookNext]_vars

\* The client in use, with no webhook traffic.
ClientInit == WebhookInit /\ secret = TestSecret

ClientSpec == ClientInit /\ [][ClientNext]_vars

\* A caller that derives clients with WithContext and calls methods on the
\* original and on the derived client.
ContextNext ==
    \/ DeriveWithContext
    \/ UseClient
    \/ CallGetTrackById
    \/ CallGetUserInfo
    \/ CallGetPlays
    \/ CallGetReview
    \/ Discard

ContextSpec == ClientInit /\ [][ContextNext]_vars

\* A caller that makes one call again and again on the same client.
RepeatNext == RepeatCall

RepeatSpec == ClientInit /\ [][RepeatNext]_vars

\* A caller that sends requests through bearer-token round trippers.
TransportSpec == ClientInit /\ [][TransportNext]_vars

\* A method applying the options it was given to its accumulator.
OptionsSpec == ClientInit /\ [][OptionsNext]_vars

\* Two goroutines calling GetPlays and GetTrackById on the one client.
ConcurrentSpec == ClientInit /\ [][ConcurrentNext]_vars

(***************************************************************************)
(* Properties of the webhook handler                                       *)
(***************************************************************************)
\* A request has been served.
Served == nreq > 0

\* The steps of the last request that are the operation op.
StepsOf(op) == {i \in DOMAIN resp.trace : resp.trace[i].op = op}

\* How often the callback was invoked for the last request.
CallbackCalls == Cardinality(StepsOf("handler"))

\* The last request is a POST whose body was read and handed to a validator.
ReachedVerify ==
    req.Method = MethodPost /\ ~NewWebhookErr(secret) /\ ~req.BodyErr

\* ... and the signature of its headers is one over its body by the secret.
Authentic == ReachedVerify /\ ~VerifyErr(secret, req.Body, req.Sig)

\* ... and its signature does not verify.
Forged == ReachedVerify /\ VerifyErr(secret, req.Body, req.Sig)

\* The last request's body decodes to an event with a non-empty type.
WellFormed ==
    ~Unmarshal(req.Body).err /\ Unmarshal(req.Body).webhook.Type # ""

\* The status codes the handler itself wrote for the last request.
HandlerCodes == {resp.wrote[i].code : i \in DOMAIN resp.wrote}

\* The callback of the last request did not touch the response writer.
CallbackSilent == cb.status = 0 /\ cb.body = ""

\* What the callback of the last request wrote as body.
CallbackBody == IF cb.body = "" THEN <<>> ELSE <<cb.body>>

\* The status the callback's own writes leave on a fresh recorder.
CallbackCode == IF cb.status # 0 THEN cb.status ELSE StatusOK

\* C1: a POST whose body fails signature verification (the body was read
\* and wh.Verify rejects it) is answered 401 whatever the body holds, and
\* json.Unmarshal is not reached for it; in every request, json.Unmarshal
\* is preceded by a successful wh.Verify.
C1_VerifyBeforeParse ==
    Served =>
        /\ \A i \in StepsOf("Unmarshal") :
              \E j \in StepsOf("Verify") : j < i /\ resp.trace[j].ok
        /\ Forged =>
              /\ resp.w.Code = StatusUnauthorized
              /\ StepsOf("Unmarshal") = {}

W1_ForgedMalformed ==
    /\ Served /\ Forged
    /\ req.Body.kind = "malformed"
    /\ resp.w.Code = StatusUnauthorized

\* C2: the callback is invoked at most once per request, and only for a
\* POST whose body verified, decoded and has a non-empty type; a POST with
\* an incorrect signature never invokes it.
C2_CallbackOnlyWhenVerified ==
    Served =>
        /\ CallbackCalls <= 1
        /\ CallbackCalls = 1 => Authentic /\ WellFormed
        /\ (req.Method = MethodPost /\ VerifyErr(secret, req.Body, req.Sig))
              => CallbackCalls = 0

W2_CallbackInvoked == Served /\ CallbackCalls = 1 /\ Authentic

\* C3: a request whose method is not POST is answered 405 with no step
\* taken: the body is not read, no signature is verified and the callback
\* is not invoked, whatever its headers and body.
C3_NonPostIs405 ==
    (Served /\ req.Method # MethodPost) =>
        /\ resp.w.Code = StatusMethodNotAllowed
        /\ resp.trace = <<>>
        /\ resp.wrote = <<[msg |-> "Invalid request method",
                           code |-> StatusMethodNotAllowed]>>

W3_SignedPut ==
    /\ Served /\ req.Method = "PUT"
    /\ ~VerifyErr(secret, req.Body, req.Sig) /\ WellFormed
    /\ resp.w.Code = StatusMethodNotAllowed

\* C4: a POST whose body verifies but does not decode as a WebhookEvent,
\* or decodes to an event with an empty type, is answered 400 and the
\* callback is not invoked.
C4_BadPayloadIs400 ==
    (Served /\ Authentic /\ ~WellFormed) =>
        /\ resp.w.Code = StatusBadRequest
        /\ CallbackCalls = 0

W4_VerifiedEmptyType ==
    /\ Served /\ Authentic
    /\ ~Unmarshal(req.Body).err /\ Unmarshal(req.Body).webhook.Type = ""
    /\ resp.w.Code = StatusBadRequest

\* C5 as stated: whenever the callback returns an error the response has
\* status 500 and its body is the error text, for every callback behaviour.
C5_Original ==
    (Served /\ CallbackCalls = 1 /\ cb.err.isErr) =>
        /\ resp.w.Code = StatusInternalServerError
        /\ resp.w.Body = <<ErrorLine(cb.err.text)>>

\* C5 amended: whenever the callback returns an error the handler calls
\* http.Error once with the error text and 500; the response has status 500
\* and the error text as its body when the callback wrote nothing to the
\* response writer, and otherwise keeps the status of the callback's first
\* write, with the error text appended to what the callback wrote.
C5_CallbackError ==
    (Served /\ CallbackCalls = 1 /\ cb.err.isErr) =>
        /\ resp.wrote = <<[msg |-> cb.err.text,
                           code |-> StatusInternalServerError]>>
        /\ CallbackSilent =>
              /\ resp.w.Code = StatusInternalServerError
              /\ resp.w.Body = <<ErrorLine(cb.err.text)>>
        /\ ~CallbackSilent =>
              /\ resp.w.Code = CallbackCode
              /\ resp.w.Body = CallbackBody \o <<ErrorLine(cb.err.text)>>

W5_SilentCallbackError ==
    /\ Served /\ CallbackCalls = 1 /\ cb.err.isErr /\ CallbackSilent
    /\ resp.w.Code = StatusInternalServerError

\* C6: a POST with a valid signature over its exact body and a non-empty
\* event type is handed to the callback; when the callback returns nil the
\* handler writes no status and no body, so the response is what the
\* callback wrote.
C6_CallbackOwnsSuccess ==
    (Served /\ Authentic /\ WellFormed) =>
        /\ CallbackCalls = 1
        /\ ~cb.err.isErr =>
              /\ resp.wrote = <<>>
              /\ resp.w.Code = CallbackCode
              /\ resp.w.Body = CallbackBody
              /\ resp.w.wroteHeader = ~CallbackSilent

W6_CallbackWrote202 ==
    /\ Served /\ Authentic /\ WellFormed /\ ~cb.err.isErr
    /\ cb.status = StatusAccepted
    /\ resp.w.Code = StatusAccepted

\* C7 as stated: whenever the handler itself writes 500, the callback was
\* invoked and returned an error, and the body is that error's text.
C7_Original ==
    (Served /\ StatusInternalServerError \in HandlerCodes) =>
        /\ CallbackCalls = 1 /\ cb.err.isErr
        /\ resp.w.Body = <<ErrorLine(cb.err.text)>>

\* C7 amended: the handler itself writes 500 only when the validator cannot
\* be created from the secret (message "Failed to create webhook validator",
\* callback not invoked) or when the callback was invoked and returned an
\* error, and then the text the handler writes is that error's text, the
\* last thing in the body.
C7_Only500 ==
    (Served /\ StatusInternalServerError \in HandlerCodes) =>
        \/ /\ req.Method = MethodPost /\ NewWebhookErr(secret)
           /\ CallbackCalls = 0
           /\ resp.wrote = <<[msg |-> "Failed to create webhook validator",
                              code |-> StatusInternalServerError]>>
           /\ resp.w.Body = <<ErrorLine("Failed to create webhook validator")>>
        \/ /\ CallbackCalls = 1 /\ cb.err.isErr
           /\ resp.wrote = <<[msg |-> cb.err.text,
                              code |-> StatusInternalServerError]>>
           /\ resp.w.Body[Len(resp.w.Body)] = ErrorLine(cb.err.text)

W7_ValidatorFailure ==
    /\ Served /\ NewWebhookErr(secret)
    /\ StatusInternalServerError \in HandlerCodes
    /\ CallbackCalls = 0

\* C8 as stated: a 400 of the handler occurs only after the request's
\* signature was verified successfully.
C8_Original ==
    (Served /\ StatusBadRequest \in HandlerCodes) =>
        \E j \in StepsOf("Verify") : resp.trace[j].ok

\* C8 amended: a 400 for a malformed or type-less payload occurs only after
\* the request's signature was verified successfully; the 400 for an
\* unreadable body ("No payload") is written before any verification.
C8_400AfterVerify ==
    (Served /\ StatusBadRequest \in HandlerCodes) =>
        \/ /\ resp.wrote = <<[msg |-> "No payload", code |-> StatusBadRequest]>>
           /\ req.BodyErr
           /\ StepsOf("Verify") = {}
        \/ /\ resp.wrote[1].msg \in {"Failed to decode webhook payload",
                                     "Invalid webhook payload"}
           /\ Authentic /\ ~WellFormed
           /\ \E j \in StepsOf("Verify") :
                 resp.trace[j].ok /\ \A i \in StepsOf("Unmarshal") : j < i

W8_UnreadableBody ==
    /\ Served /\ req.BodyErr
    /\ resp.w.Code = StatusBadRequest
    /\ StepsOf("Verify") = {}

\* The outcome of the last request is one of the two terminal states, and
\* the handler wrote at most one status, an error status.
OneOutcome ==
    Served =>
        /\ resp.state \in {"VERIFIED", "REJECTED"}
        /\ resp.state = "VERIFIED" <=> CallbackCalls = 1
        /\ resp.state = "REJECTED" =>
              /\ CallbackCalls = 0
              /\ Len(resp.wrote) = 1
              /\ resp.w.Code = resp.wrote[1].code
        /\ Len(resp.wrote) <= 1
        /\ \A c \in HandlerCodes : c >= StatusBadRequest

\* Serving the same request again, with the callback behaving the same,
\* gives the same run, whatever was served before.
NoMemory ==
    (nreq > 0 /\ nreq' > nreq /\ req' = req /\ cb' = cb) => resp' = resp

\* The run of the last request is the one the handler gives that request on
\* its own: nothing of it comes from the requests served before.
OutcomeOfRequestAlone ==
    Served => resp = HandleWebhook(cb, secret, req)

GuardedGets ==
    {"GetTrackById", "GetUserTrackById", "GetTrackBySlug", "GetChallenges",
     "GetChallenge", "GetUserChallenge", "GetInvite"}

\* The zero value of a method's result type.
ZeroOf(method) ==
    CASE method \in {"GetTrackById", "GetTrackBySlug"} -> ZeroTrack
      [] method = "GetUserTrackById" -> ZeroSandboxTrack
      [] method = "GetChallenges" -> <<>>
      [] method \in {"GetChallenge", "GetUserChallenge"} -> ZeroChallenge
      [] method = "GetInvite" -> ZeroInvite
      [] method \in {"GetTracks", "GetSandboxes"} -> <<>>
      [] method = "GetSandbox" -> ZeroSandbox
      [] method = "GetReview" -> NilReview
      [] method = "GetUserInfo" -> ZeroUserInfo
      [] method = "GetTrackUnlockedChallenge" -> ZeroChallenge
      [] method = "GetPlays" -> [Items |-> NilSlice, TotalItems |-> 0]
      [] method = "GetSandboxVariable" -> ""
      [] method = "SetSandboxVariable" -> <<>>

\* C10: called with an empty track, track-slug, challenge or invite
\* identifier, each of GetTrackById, GetUserTrackById, GetTrackBySlug,
\* GetChallenges, GetChallenge, GetUserChallenge and GetInvite returns the
\* zero value and a nil error and makes no executor call, whatever the
\* options.
C10_EmptyIdShortCircuits ==
    (ret.method \in GuardedGets /\ ret.id = "") =>
        /\ ret.val = ZeroOf(ret.method)
        /\ ~ret.err.isErr
        /\ calls = <<>>

W10_EmptyTrackIdWithOptions ==
    /\ ret.method = "GetUserTrackById"
    /\ ret.id = "" /\ ret.userId = "u1"
    /\ ret.opts = <<WithChallenges, WithReviews>>
    /\ ret.val = ZeroSandboxTrack
    /\ calls = <<>>

\* C11: for an empty review identifier GetReview returns the zero value
\* (a nil review) and a nil error without any executor call, with or without
\* WithPlay.
C11_EmptyReviewId ==
    (ret.method = "GetReview" /\ ret.id = "") =>
        /\ ret.val = NilReview
        /\ ~ret.err.isErr
        /\ calls = <<>>

\* The answers the executor gave to the calls for query q, in call order.
RECURSIVE AnswersFrom(_, _)
AnswersFrom(q, i) ==
    IF i > Len(calls) THEN <<>>
    ELSE IF calls[i].q = q /\ ~calls[i].failed
         THEN <<calls[i].data>> \o AnswersFrom(q, i + 1)
         ELSE AnswersFrom(q, i + 1)

\* The user's track challenge list: the user's challenges, in the order in
\* which the track lists them.
UserTrackChallenges == AnswersFrom("userChallengeQuery", 1)

UnlockedStatuses == {"unlocked", "creating", "created", "started"}

UnlockedAt ==
    {i \in DOMAIN UserTrackChallenges :
        UserTrackChallenges[i].Status \in UnlockedStatuses}

\* C12: GetTrackUnlockedChallenge returns the first challenge of the user's
\* track challenge list whose status is unlocked, creating, created or
\* started, and the zero challenge with a nil error when there is none.
C12_FirstUnlockedChallenge ==
    (ret.method = "GetTrackUnlockedChallenge" /\ ~ret.err.isErr) =>
        /\ UnlockedAt # {} =>
              \E i \in UnlockedAt :
                 /\ \A j \in UnlockedAt : i <= j
                 /\ ret.val = UserTrackChallenges[i]
        /\ UnlockedAt = {} => ret.val = ZeroChallenge

\* A call that skipped a completed challenge and returned the second one,
\* which the user has started.
W12_SecondChallengeStarted ==
    /\ ret.method = "GetTrackUnlockedChallenge"
    /\ ~ret.err.isErr
    /\ Len(UserTrackChallenges) = 2
    /\ UserTrackChallenges[1].Status = "completed"
    /\ ret.val = [Id |-> "c2", Status |-> "started"]

(***************************************************************************)
(* Properties of GetPlays                                                  *)
(***************************************************************************)
\* The variables GetPlays forwarded to the executor.
Forwarded == calls[1].variables

\* The positions of the options called name in the option list of the call.
Given(name) == {i \in DOMAIN ret.opts : ret.opts[i].name = name}

\* The last option called name in the option list of the call.
LastGiven(name) ==
    ret.opts[CHOOSE i \in Given(name) : \A j \in Given(name) : j <= i]

\* The list a filter variable carries: the arguments of the last option
\* called name, none when no such option is given.
ListFor(name) == IF Given(name) = {} THEN <<>> ELSE LastGiven(name).ids.elems

\* The filter lists are those of their own options.
ListsForwarded ==
    /\ Forwarded.trackIds.elems = ListFor("WithTrackIDs")
    /\ Forwarded.trackInviteIds.elems = ListFor("WithTrackInviteIDs")
    /\ Forwarded.landingPageIds.elems = <<>>
    /\ Forwarded.tags.elems = ListFor("WithTags")
    /\ Forwarded.userIds.elems = ListFor("WithUserIDs")

\* C13: without a play-type or ordering option GetPlays forwards ALL and
\* (completion_percent, Desc); WithPlayType(p) forwards exactly p and
\* WithOrdering(f, d) exactly (f, d); the other forwarded variables are what
\* the arguments and the other options make them.
C13_PlayTypeAndOrdering ==
    ret.method = "GetPlays" =>
        /\ Len(calls) = 1
        /\ Forwarded.playType =
              IF Given("WithPlayType") = {} THEN "ALL"
              ELSE LastGiven("WithPlayType").a
        /\ Forwarded.orderBy =
              IF Given("WithOrdering") = {} THEN "completion_percent"
              ELSE LastGiven("WithOrdering").a
        /\ Forwarded.orderDirection =
              IF Given("WithOrdering") = {} THEN "Desc"
              ELSE LastGiven("WithOrdering").b
        /\ Forwarded.teamSlug = client.TeamSlug
        /\ Forwarded.from = ret.args.from /\ Forwarded.to = ret.args.to
        /\ Forwarded.take = ret.args.take /\ Forwarded.skip = ret.args.skip
        /\ ListsForwarded

\* GetPlays called with a play type and an ordering.
W13_DeveloperByTimeSpent ==
    /\ ret.method = "GetPlays"
    /\ ret.opts = <<WithPlayType(PlayTypeDeveloper),
                    WithOrdering(OrderByTimeSpent, DirectionAsc)>>
    /\ Forwarded.playType = "DEVELOPER"
    /\ Forwarded.orderBy = "time_spent"

\* C14: the ids given to WithTrackIDs are forwarded as trackIds, same
\* elements in the same order; without the option, or with an option given
\* no ids, trackIds is an empty list, never null; likewise trackInviteIds,
\* landingPageIds, tags and userIds.
C14_FilterLists ==
    ret.method = "GetPlays" =>
        /\ ListsForwarded
        /\ \A v \in {"trackIds", "trackInviteIds", "landingPageIds",
                      "tags", "userIds"} :
              /\ v \in DOMAIN Forwarded
              /\ ~Forwarded[v].isNil

\* GetPlays called with WithTrackIDs() and then a tag list.
W14_NoIdsGiven ==
    /\ ret.method = "GetPlays"
    /\ ret.opts = <<WithTrackIDs(<<>>), WithTags(<<"cilium", "ebpf">>)>>
    /\ Forwarded.trackIds = Slice(<<>>)
    /\ Forwarded.tags.elems = <<"cilium", "ebpf">>

(***************************************************************************)
(* Properties of GetUserInfo                                               *)
(***************************************************************************)
\* The user the executor returned to GetUserInfo.
FetchedUser == calls[1].data

DetailsHaveEmail ==
    ~FetchedUser.Details.isNil /\ FetchedUser.Details.Email # ""

ProfileHasEmail ==
    ~FetchedUser.Profile.isNil /\ FetchedUser.Profile.Email # ""

\* The positions where a whitespace-separated token of s starts.
TokenStarts(s) ==
    {i \in DOMAIN s :
        s[i] \notin Whitespace /\ (i = 1 \/ s[i - 1] \in Whitespace)}

\* The token of s that starts at position i.
TokenAt(s, i) ==
    SubSeq(s, i,
           CHOOSE j \in i..Len(s) :
              /\ \A k \in i..j : s[k] \notin Whitespace
              /\ (j = Len(s) \/ s[j + 1] \in Whitespace))

\* The whitespace-separated tokens of s, in order.
Tokens(s) ==
    [k \in 1..Cardinality(TokenStarts(s)) |->
        TokenAt(s, CHOOSE i \in TokenStarts(s) :
                      Cardinality({j \in TokenStarts(s) : j < i}) = k - 1)]

\* C16: GetUserInfo uses the Details' first name, last name and email when
\* Details has a non-empty email, even when Profile is populated; otherwise,
\* when Profile has a non-empty email, it returns Profile's email, the first
\* whitespace-separated token of the display name as first name and the
\* remaining tokens joined by one space as last name.
C16_DetailsThenProfile ==
    (ret.method = "GetUserInfo" /\ ~calls[1].failed) =>
        LET tokens == Tokens(FetchedUser.Profile.Display_Name)
        IN  /\ DetailsHaveEmail =>
                  /\ ~ret.err.isErr
                  /\ ret.val = [FirstName |-> FetchedUser.Details.FirstName,
                                LastName |-> FetchedUser.Details.LastName,
                                Email |-> FetchedUser.Details.Email]
            /\ (~DetailsHaveEmail /\ ProfileHasEmail) =>
                  /\ ~ret.err.isErr
                  /\ ret.val =
                        [FirstName |->
                            IF tokens = <<>> THEN <<>> ELSE tokens[1],
                         LastName |->
                            IF tokens = <<>> THEN <<>>
                            ELSE Join(Tail(tokens), <<" ">>),
                         Email |-> FetchedUser.Profile.Email]

\* The same, for the profiles whose display name has at least one token.
GetUserInfoWithNamedProfile ==
    (ret.method = "GetUserInfo" /\ ~calls[1].failed
        /\ (DetailsHaveEmail
              \/ Tokens(FetchedUser.Profile.Display_Name) # <<>>)) =>
        C16_DetailsThenProfile

(***************************************************************************)
(* Properties of WithContext                                               *)
(***************************************************************************)
\* The context the executor calls of the method call held in ret must carry.
ReceiverContext ==
    IF receiver = "derived" THEN derived.ctx ELSE "background"

\* C17: WithContext(ctx) returns a client whose Context is ctx and leaves the
\* original client and its Context unchanged; every executor call through the
\* derived client receives ctx, and every call through the original client,
\* also after the derivation, receives the original context.
C17_WithContext ==
    /\ [](derived # NoDerived => derived.c.Context = derived.ctx)
    /\ [](client = NewClient("token", "isovalent"))
    /\ [][client' = client]_vars
    /\ [](ret.method # "none" =>
            \A i \in DOMAIN calls : calls[i].ctx = ReceiverContext)

\* A call through the original client, made after a client was derived for
\* another context, which reached the executor twice.
W17_OriginalAfterDerivation ==
    /\ derived.ctx = "timeout-2s"
    /\ receiver = "client"
    /\ ret.method = "GetTrackById"
    /\ Len(calls) = 2
    /\ calls[2].ctx = "background"

\* C18: the client WithContext returns has, in every field other than
\* Context (GraphQLClient, InfoLogger, DebugLogger, TeamSlug), the value the
\* receiver has.
C18_CopyKeepsFields ==
    derived # NoDerived =>
        \A f \in {"GraphQLClient", "InfoLogger", "DebugLogger", "TeamSlug"} :
           derived.c[f] = client[f]

(***************************************************************************)
(* Properties of the bearer-token transport                                *)
(***************************************************************************)
RoundTripped == rtret # NoRoundTrip

\* C19: RoundTrip sets Authorization to "Bearer <token>", replacing any value
\* already present, before it delegates; it delegates exactly once per
\* request and returns the underlying transport's response and error
\* unchanged.
C19_BearerRoundTrip ==
    RoundTripped =>
        /\ Len(delegated) = 1
        /\ delegated[1].req.Header["Authorization"] =
              <<"Bearer " \o rt.Token>>
        /\ rtreq.left.Header["Authorization"] = <<"Bearer " \o rt.Token>>
        /\ rtret.resp = delegated[1].outcome.resp
        /\ rtret.err = delegated[1].outcome.err

\* A request that came with two Authorization values and whose transport
\* failed.
W19_ReplacedTwoValues ==
    /\ RoundTripped
    /\ rt.Token = "test-token"
    /\ rtret.err.isErr
    /\ rtreq.given.Header["Authorization"] = <<"Bearer a", "Bearer b">>
    /\ rtreq.left.Header["Authorization"] = <<"Bearer test-token">>

(***************************************************************************)
(* Properties of the enrichment                                            *)
(***************************************************************************)
EnrichingGets ==
    {"GetTrackById", "GetUserTrackById", "GetTrackBySlug", "GetTracks",
     "GetSandbox", "GetSandboxes"}

\* The follow-up calls that failed: every failed executor call but the
\* primary one.
FailedFollowUps == {i \in DOMAIN calls : i > 1 /\ calls[i].failed}

\* C20: when a follow-up call of an enriching method (challenge list,
\* per-challenge user status, reviews) fails, the method returns the zero
\* value and a non-nil error, whatever the primary call had fetched, and the
\* failed call is the last executor call it makes: no retry, no further
\* call.
C20_EnrichmentFailureAborts ==
    (ret.method \in EnrichingGets /\ FailedFollowUps # {}) =>
        /\ ret.val = ZeroOf(ret.method)
        /\ ret.err.isErr
        /\ FailedFollowUps = {Len(calls)}
        /\ ~calls[1].failed

\* GetTracks whose fourth executor call, a review query, failed after the
\* primary query had returned tracks.
W20_ReviewQueryFails ==
    /\ ret.method = "GetTracks"
    /\ ret.opts = <<WithChallenges, WithReviews>>
    /\ Len(calls) = 4
    /\ calls[4].failed
    /\ calls[1].data # <<>>
    /\ ret.val = <<>>

(***************************************************************************)
(* Properties of repeated calls                                            *)
(***************************************************************************)
\* C15: nothing is cached: N calls of a Get method with the same non-empty
\* arguments and the same options on one client make N primary executor
\* calls, whatever the calls before returned.
C15_NoCaching ==
    /\ nprimary = ninvoke
    /\ ninvoke > 0 => (calls # <<>> /\ calls[1].ctx = client.Context)

\* The third of three identical calls of GetTrackById with its challenges.
W15_ThirdIdenticalCall ==
    /\ ninvoke = 3
    /\ nprimary = 3
    /\ ret.method = "GetTrackById"
    /\ ret.opts = <<WithChallenges>>
    /\ ~ret.err.isErr

(***************************************************************************)
(* Properties of the per-user challenge calls                              *)
(***************************************************************************)
\* GetUserTrackById returned without error after fetching the challenges.
UserTrackWithChallenges ==
    /\ ret.method = "GetUserTrackById"
    /\ ret.id # ""
    /\ ApplyOptions(ret.opts).includeChallenges
    /\ ~ret.err.isErr

\* The challenges the challenge-list fetch returned.
Listed == calls[2].data

\* The listed challenges that carry an id, and how many of them are among
\* the first k.
Identified == {k \in DOMAIN Listed : Listed[k].Id # ""}

Rank(k) == Cardinality({j \in Identified : j <= k})

\* The number of review fetches of the call.
ReviewCalls == IF ApplyOptions(ret.opts).includeReviews THEN 1 ELSE 0

\* C21 as stated: one per-user challenge query for each of the N listed
\* challenges, in list order, 2+N executor calls without reviews, and the
\* k-th challenge returned is the answer of the k-th per-user query.
C21_Original ==
    (UserTrackWithChallenges /\ ~ApplyOptions(ret.opts).includeReviews) =>
        /\ Len(calls) = 2 + Len(Listed)
        /\ \A k \in DOMAIN Listed :
              /\ calls[2 + k].q = "userChallengeQuery"
              /\ calls[2 + k].variables.challengeId = Listed[k].Id
              /\ ret.val.Challenges[k] = calls[2 + k].data

\* C21: GetUserTrackById with WithChallenges makes the track query, the
\* challenge-list fetch and then one per-user challenge query for each
\* listed challenge that has a non-empty id, in list order and for the
\* user of the call; the k-th challenge returned is the answer of the query
\* for the k-th listed challenge, and the zero challenge when that
\* challenge has an empty id, for which no query is made.
C21_OneQueryPerIdentifiedChallenge ==
    UserTrackWithChallenges =>
        /\ calls[1].q = "sandboxTrackQuery"
        /\ calls[2].q = "challengesQuery"
        /\ Len(calls) = 2 + Cardinality(Identified) + ReviewCalls
        /\ Len(ret.val.Challenges) = Len(Listed)
        /\ \A k \in DOMAIN Listed :
              IF k \in Identified
              THEN /\ calls[2 + Rank(k)].q = "userChallengeQuery"
                   /\ calls[2 + Rank(k)].variables =
                         [challengeId |-> Listed[k].Id, userId |-> ret.userId]
                   /\ ret.val.Challenges[k] = calls[2 + Rank(k)].data
              ELSE ret.val.Challenges[k] = ZeroChallenge

\* GetUserTrackById whose challenge list holds a challenge without an id
\* before one with an id: two listed challenges, one per-user query.
W21_UnidentifiedChallengeFirst ==
    /\ UserTrackWithChallenges
    /\ ret.opts = <<WithChallenges>>
    /\ Len(Listed) = 2
    /\ Listed[1].Id = ""
    /\ Listed[2].Id = "c2"
    /\ Len(calls) = 3
    /\ ret.val.Challenges[2].Status = "started"

(***************************************************************************)
(* Properties of the sandbox-variable methods                              *)
(***************************************************************************)
\* The arguments whose emptiness makes the method return at once.
EmptyArgument ==
    \/ ret.id = ""
    \/ ret.args.key = ""
    \/ ret.method = "SetSandboxVariable" /\ ret.args.value = ""

\* C30: GetSandboxVariable with an empty sandbox id or key returns "" and
\* a nil error without a query; SetSandboxVariable with an empty sandbox
\* id, key or value returns nil without a mutation; an empty hostname alone
\* never short-circuits; with these arguments non-empty exactly one
\* executor call is made, carrying the arguments, and the hostname as given.
C30_SandboxVariableShortCircuits ==
    ret.method \in {"GetSandboxVariable", "SetSandboxVariable"} =>
        IF EmptyArgument
        THEN calls = <<>> /\ ~ret.err.isErr /\ ret.val = ZeroOf(ret.method)
        ELSE /\ Len(calls) = 1
             /\ calls[1].op = IF ret.method = "GetSandboxVariable"
                              THEN "Query" ELSE "Mutate"
             /\ calls[1].variables.sandboxID = ret.id
             /\ calls[1].variables.hostname = ret.args.hostname
             /\ calls[1].variables.key = ret.args.key
             /\ ret.method = "SetSandboxVariable" =>
                   calls[1].variables.value = ret.args.value

\* SetSandboxVariable called with an empty value and nothing else empty.
W30_EmptyValueOnly ==
    /\ ret.method = "SetSandboxVariable"
    /\ ret.id = "sb1"
    /\ ret.args = [hostname |-> "server", key |-> "MY_VAR", value |-> ""]
    /\ calls = <<>>
    /\ ~ret.err.isErr

(***************************************************************************)
(* Properties of a failing primary call                                    *)
(***************************************************************************)
\* What the methods put in front of the executor's message.
ErrorPrefixes ==
    {"", "GraphQL query with play failed: ", "GraphQL query failed: ",
     "[GetUserInfo] Failed to retrieve user info: ",
     "[instruqt.GetTrackUnlockedChallenge] failed to get user track: "}

\* The executor's first call of the method failed.
PrimaryFailed == ret.method # "none" /\ calls # <<>> /\ calls[1].failed

\* C22: when the primary executor call fails, the method returns the zero
\* or empty value of its result and a non-nil error whose message ends with
\* the executor's message, and makes no further executor call.
C22_PrimaryFailurePropagates ==
    PrimaryFailed =>
        /\ ret.val = ZeroOf(ret.method)
        /\ ret.err.isErr
        /\ ret.err.text \in {p \o GraphQLError.text : p \in ErrorPrefixes}
        /\ Len(calls) = 1

\* GetPlays whose query failed, called with options.
W22_PlaysQueryFails ==
    /\ PrimaryFailed
    /\ ret.method = "GetPlays"
    /\ ret.opts # <<>>
    /\ ret.err.text = "GraphQL query failed: graphql error"
    /\ ret.val.Items.isNil

SentFilter == calls[1].variables.filter

\* The user ids the filter carries.
SentUserIds ==
    IF SentFilter.User_name_or_id = "" THEN <<>>
    ELSE <<SentFilter.User_name_or_id>>

\* The track, invite and pool ids given are the ones the filter carries.
ListFiltersSent ==
    /\ SentFilter.Track_ids.elems = ListFor("WithTrackIDs")
    /\ SentFilter.Invite_ids.elems = ListFor("WithTrackInviteIDs")
    /\ SentFilter.Pool_ids.elems = ListFor("WithPoolIDs")

\* C23: GetSandboxes forwards its set-membership filters verbatim: every id
\* given through WithTrackIDs, WithTrackInviteIDs, WithPoolIDs and
\* WithUserIDs is in the filter of the query, same elements in the same
\* order, none dropped.
C23_SandboxFiltersForwarded ==
    ret.method = "GetSandboxes" =>
        /\ ListFiltersSent
        /\ SentUserIds = ListFor("WithUserIDs")

\* The track, invite and pool ids, and the state, are forwarded as given.
GetSandboxesForwardsListFilters ==
    ret.method = "GetSandboxes" =>
        /\ ListFiltersSent
        /\ SentFilter.State =
              IF Given("WithState") = {} THEN ""
              ELSE LastGiven("WithState").a

(***************************************************************************)
(* Properties of concurrent calls                                          *)
(***************************************************************************)
\* What the call of goroutine p does when it is the only call on the
\* client: its return and the executor calls it makes.
Alone(p) ==
    Invoke(client, NewExec(proc[p].x.remote),
           NewCall(proc[p].method, "", proc[p].id, proc[p].args,
                   proc[p].opts))

\* The accumulator a call starts with.
FreshOptions(p) ==
    IF proc[p].method = "GetPlays" THEN PlaysDefaults ELSE ZeroOptions

\* C24: in every interleaving of two calls on one client, the accumulator
\* of a call holds its own options and nothing else, the call forwards the
\* variables and returns the result and error that it does when run alone,
\* and the fields of the client are never written.
C24_CallsShareNothing ==
    /\ client = NewClient("token", "isovalent")
    /\ \A p \in Procs :
          /\ InFlight(p) =>
                proc[p].acc =
                   ApplyFrom(FreshOptions(p),
                             SubSeq(proc[p].opts, 1, proc[p].i - 1), 1)
          /\ proc[p].pc = "done" =>
                /\ proc[p].x.calls = Alone(p).x.calls
                /\ proc[p].val = Alone(p).val
                /\ proc[p].err = Alone(p).err

\* GetPlays returned after running while a GetTrackById call with other
\* options was in flight, which is still fetching its challenges.
W24_InterleavedCalls ==
    /\ proc["a"].pc = "done"
    /\ proc["a"].method = "GetPlays"
    /\ proc["a"].ov
    /\ proc["a"].opts = <<WithTrackIDs(<<"t2">>),
                          WithOrdering(OrderByTimeSpent, DirectionAsc)>>
    /\ proc["a"].x.calls[1].variables.orderBy = "time_spent"
    /\ proc["b"].pc = "challenges"
    /\ proc["b"].ov
    /\ proc["b"].opts = <<WithChallenges, WithReviews>>

(***************************************************************************)
(* Properties of the optional nested collections                           *)
(***************************************************************************)
\* The tracks a track method returned.
ReturnedTracks == IF ret.method = "GetTracks" THEN ret.val ELSE <<ret.val>>

\* The id the follow-up fetches for the k-th returned track are made with.
FetchId(k) ==
    IF ret.method = "GetTrackById" THEN ret.id ELSE ReturnedTracks[k].Id

\* The executor calls that fetched the challenges, resp. the reviews, of id.
ChallengeFetches(id) ==
    {j \in DOMAIN calls : /\ calls[j].q = "challengesQuery"
                          /\ calls[j].variables.trackId = id}

ReviewFetches(id) ==
    {j \in DOMAIN calls : /\ calls[j].q \in {"trackReviewsWithPlay",
                                             "trackReviewsBase"}
                          /\ calls[j].variables.trackId = id}

\* What GetReviews made of the answer of executor call j.
ReviewsFetched(j) ==
    IF calls[j].q = "trackReviewsWithPlay" THEN calls[j].data
    ELSE [TotalCount |-> calls[j].data.TotalCount,
          Nodes |-> WithoutPlay(calls[j].data.Nodes)]

\* The nested collections of the returned tracks are those fetched for
\* them when the option asks for them, and empty, without a fetch, when
\* it does not.
NestedAsRequested ==
    /\ \A k \in DOMAIN ReturnedTracks :
          IF ApplyOptions(ret.opts).includeChallenges /\ FetchId(k) # ""
          THEN \E j \in ChallengeFetches(FetchId(k)) :
                  ReturnedTracks[k].Challenges = calls[j].data
          ELSE ReturnedTracks[k].Challenges = <<>>
    /\ \A k \in DOMAIN ReturnedTracks :
          IF ApplyOptions(ret.opts).includeReviews
          THEN \E j \in ReviewFetches(FetchId(k)) :
                  ReturnedTracks[k].TrackReviews = ReviewsFetched(j)
          ELSE ReturnedTracks[k].TrackReviews = ZeroReviews
    /\ ~ApplyOptions(ret.opts).includeChallenges =>
          \A j \in DOMAIN calls : calls[j].q # "challengesQuery"
    /\ ~ApplyOptions(ret.opts).includeReviews =>
          \A j \in DOMAIN calls :
              calls[j].q \notin {"trackReviewsWithPlay", "trackReviewsBase"}

\* The call returned a track or tracks without error.
TracksReturned(methods) ==
    /\ ret.method \in methods
    /\ ~ret.err.isErr
    /\ calls # <<>>

\* C26: when GetTracks, GetTrackById or GetTrackBySlug is called with
\* WithChallenges (resp. WithReviews) and every call succeeds, each
\* returned track's Challenges (resp. TrackReviews) is what the follow-up
\* fetch for that track returned; without the option the collection of
\* every returned track is empty and no follow-up call is made.
C26_NestedCollectionsPopulated ==
    TracksReturned({"GetTracks", "GetTrackById", "GetTrackBySlug"}) =>
        NestedAsRequested

\* GetTrackById and GetTrackBySlug populate the collections as requested.
SingleTrackPopulated ==
    TracksReturned({"GetTrackById", "GetTrackBySlug"}) => NestedAsRequested

(***************************************************************************)
(* Properties of the option functions                                      *)
(***************************************************************************)
\* The field of the accumulator an option is for, and the value it gives.
FieldOf(opt) ==
    CASE opt.name = "WithPlay" -> "includePlay"
      [] opt.name = "WithChallenges" -> "includeChallenges"
      [] opt.name = "WithReviews" -> "includeReviews"
      [] opt.name = "WithAssignment" -> "includeAssignment"
      [] opt.name = "WithTrackIDs" -> "trackIDs"
      [] opt.name = "WithTrackInviteIDs" -> "trackInviteIDs"
      [] opt.name = "WithTags" -> "tags"
      [] opt.name = "WithUserIDs" -> "userIDs"
      [] opt.name = "WithPlayType" -> "playType"
      [] opt.name = "WithOrdering" -> "ordering"
      [] opt.name = "WithState" -> "state"
      [] opt.name = "WithPoolIDs" -> "poolIDs"

IncludeFields ==
    {"includePlay", "includeChallenges", "includeReviews",
     "includeAssignment"}

ListFields == {"trackIDs", "trackInviteIDs", "tags", "userIDs", "poolIDs"}

ValueOf(opt) ==
    IF FieldOf(opt) \in IncludeFields THEN [flag |-> TRUE]
    ELSE IF FieldOf(opt) \in ListFields THEN [list |-> opt.ids]
    ELSE IF FieldOf(opt) = "ordering"
         THEN [ordering |-> [isNil |-> FALSE, OrderBy |-> opt.a,
                             Direction |-> opt.b]]
    ELSE [text |-> opt.a]

\* The value of field f of accumulator o, tagged with its kind.
Held(o, f) ==
    IF f \in IncludeFields THEN [flag |-> o[f]]
    ELSE IF f \in ListFields \cup {"landingPageIDs"} THEN [list |-> o[f]]
    ELSE IF f = "ordering" THEN [ordering |-> o[f]]
    ELSE [text |-> o[f]]

\* The accumulator after the first n options.
After(n) == ret.val[n + 1]

\* C27: an option changes exactly its own field of the accumulator, to the
\* value it carries; two options on different fields give the same
\* accumulator in either order; of two options on the same field the last
\* one wins, a list replacing the list before it; an include flag that is
\* set stays set whatever is applied after it.
C27_OptionsSetOneConcern ==
    ret.method = "options" =>
        /\ \A n \in DOMAIN ret.opts :
              /\ Held(After(n), FieldOf(ret.opts[n])) = ValueOf(ret.opts[n])
              /\ \A f \in DOMAIN ZeroOptions \ {FieldOf(ret.opts[n])} :
                    Held(After(n), f) = Held(After(n - 1), f)
              /\ \A f \in IncludeFields :
                    After(n - 1)[f] => After(n)[f]
              /\ ApplyOption(After(n), ret.opts[n]) = After(n)
        /\ \A n \in DOMAIN ret.opts \ {1} :
              FieldOf(ret.opts[n - 1]) # FieldOf(ret.opts[n]) =>
                 After(n) = ApplyOption(ApplyOption(After(n - 2), ret.opts[n]),
                                        ret.opts[n - 1])

\* WithTrackIDs("t1", "t2") and then WithTrackIDs("t2") on the defaults of
\* GetPlays: the second list replaces the first.
W27_SecondListReplaces ==
    /\ ret.method = "options"
    /\ After(0) = PlaysDefaults
    /\ ret.opts = <<WithTrackIDs(<<"t1", "t2">>), WithTrackIDs(<<"t2">>)>>
    /\ After(2).trackIDs = Slice(<<"t2">>)

(***************************************************************************)
(* The order of the executor calls of the enriching track methods          *)
(***************************************************************************)
\* What executor call j of the method was for.
CallKind(j) ==
    IF calls[j].q \in {"trackQuery", "trackQueryBySlug", "sandboxTrackQuery",
                       "tracksQuery"} THEN "primary"
    ELSE IF calls[j].q \in {"challengesQuery", "userChallengeQuery"}
         THEN "challenges"
    ELSE IF calls[j].q \in {"trackReviewsWithPlay", "trackReviewsBase"}
         THEN "reviews"
    ELSE "other"

\* An enriching track method returned after it went past its guard on an
\* empty identifier (GetTracks has none).
EnrichingCallReturned ==
    /\ ret.method \in {"GetTrackById", "GetUserTrackById", "GetTrackBySlug",
                       "GetTracks"}
    /\ (ret.method # "GetTracks" => ret.id # "")

Panicked == "panic" \in DOMAIN ret.val

\* C29: for every successful query response GetUserInfo returns normally
\* with a nil error, whatever the display name of a profile with an email
\* is, and it returns the zero-value UserInfo when neither Details nor
\* Profile carries a non-empty email.
C29_GetUserInfoReturnsNormally ==
    (ret.method = "GetUserInfo" /\ ~calls[1].failed) =>
        /\ ~Panicked
        /\ ~ret.err.isErr
        /\ (~DetailsHaveEmail /\ ~ProfileHasEmail) => ret.val = ZeroUserInfo

\* The part of it about users without any email.
GetUserInfoZeroWithoutEmail ==
    (ret.method = "GetUserInfo" /\ ~calls[1].failed
        /\ ~DetailsHaveEmail /\ ~ProfileHasEmail) =>
        /\ ~Panicked
        /\ ~ret.err.isErr
        /\ ret.val = ZeroUserInfo

====
